---- MODULE Spec2Model ----
(***************************************************************************)
(* A model of the test pipeline of danpoe/test-pipeline: the TestPipeline  *)
(* driver (src/test_pipeline.py), its pass chain, and the RunPass          *)
(* process-metering pass (src/analysis_passes.py).                         *)
(*                                                                         *)
(* Strings are sequences of one-character strings, so that the regular     *)
(* expressions and the path arithmetic of the code are computed and not    *)
(* assumed.  An absolute path, once normalised, is the sequence of its     *)
(* components; the file system maps the paths that exist to "dir" or to    *)
(* the content of a file.                                                  *)
(***************************************************************************)
EXTENDS Integers, Sequences, FiniteSets, TLC

(***************************************************************************)
(* Strings                                                                 *)
(***************************************************************************)

\* The characters the regex class \s and str.strip() treat as whitespace.
Whitespace == {" ", "\t"}

RECURSIVE Strip(_)
\* str.strip(): drop leading and trailing whitespace.
Strip(s) ==
  IF s = <<>> THEN s
  ELSE IF Head(s) \in Whitespace THEN Strip(Tail(s))
  ELSE IF s[Len(s)] \in Whitespace THEN Strip(SubSeq(s, 1, Len(s) - 1))
  ELSE s

\* str.startswith(prefix)
StartsWith(s, prefix) ==
  /\ Len(s) >= Len(prefix)
  /\ SubSeq(s, 1, Len(prefix)) = prefix

\* str.endswith(suffix)
EndsWith(s, suffix) ==
  /\ Len(s) >= Len(suffix)
  /\ SubSeq(s, Len(s) - Len(suffix) + 1, Len(s)) = suffix

\* str.find(sub) + 1: the first position at which sub occurs in s, 0 if none.
Find(s, sub) ==
  LET hits == {i \in 1..(Len(s) - Len(sub) + 1) : SubSeq(s, i, i + Len(sub) - 1) = sub}
  IN IF hits = {} THEN 0 ELSE CHOOSE i \in hits : \A j \in hits : i <= j

RECURSIVE SplitOn(_, _)
\* str.split(sep) for a one-character separator.
SplitOn(s, sep) ==
  LET i == Find(s, <<sep>>)
  IN IF i = 0 THEN <<s>>
     ELSE <<SubSeq(s, 1, i - 1)>> \o SplitOn(SubSeq(s, i + 1, Len(s)), sep)

RECURSIVE JoinWith(_, _)
\* sep.join(parts)
JoinWith(parts, sep) ==
  IF parts = <<>> THEN <<>>
  ELSE IF Len(parts) = 1 THEN parts[1]
  ELSE parts[1] \o <<sep>> \o JoinWith(Tail(parts), sep)

\* re.search with a slip: the pattern is '//', without the whitespace.
SearchAdjacentSep(s) == Find(s, <<"/", "/">>) # 0

\* re.search(r'/\s*/', s): two separators with only whitespace between them.
SearchDoubledSep(s) ==
  \E i \in 1..Len(s) : \E j \in (i + 1)..Len(s) :
    /\ s[i] = "/"
    /\ s[j] = "/"
    /\ \A k \in (i + 1)..(j - 1) : s[k] \in Whitespace

(***************************************************************************)
(* Paths (os.path, POSIX)                                                  *)
(***************************************************************************)

Dot == <<".">>
DotDot == <<".", ".">>

\* The string of a normalised absolute path: "/" + "/".join(components).
PathStr(p) == <<"/">> \o JoinWith(p, "/")

RECURSIVE NormComps(_, _)
\* The loop of posixpath.normpath over the components of an absolute path:
\* empty and "." components are skipped, ".." drops the last component kept
\* and is itself dropped at the root.
NormComps(comps, kept) ==
  IF comps = <<>> THEN kept
  ELSE LET c == Head(comps)
       IN IF c = <<>> \/ c = Dot THEN NormComps(Tail(comps), kept)
          ELSE IF c = DotDot
            THEN NormComps(Tail(comps),
                           IF kept = <<>> THEN kept ELSE SubSeq(kept, 1, Len(kept) - 1))
          ELSE NormComps(Tail(comps), Append(kept, c))

\* os.path.normpath of an absolute path string, as its component sequence.
normpath(s) == NormComps(SplitOn(s, "/"), <<>>)

\* os.path.dirname of a normalised absolute path.
dirname(p) == IF p = <<>> THEN p ELSE SubSeq(p, 1, Len(p) - 1)

\* Length of the longest common prefix of two component sequences.
CommonLen(p, q) ==
  LET same == {n \in 0..Len(p) : n <= Len(q) /\ SubSeq(p, 1, n) = SubSeq(q, 1, n)}
  IN CHOOSE n \in same : \A m \in same : m <= n

\* os.path.relpath(p, start) for normalised absolute paths: one ".." for every
\* component of start below the common prefix, then the rest of p.
relpath(p, start) ==
  LET c == CommonLen(p, start)
      ups == [k \in 1..(Len(start) - c) |-> DotDot]
      rel == ups \o SubSeq(p, c + 1, Len(p))
  IN IF rel = <<>> THEN <<Dot>> ELSE rel

\* TestPipeline._join: os.path.normpath('/'.join(components)) for a root that is a
\* normalised absolute path and one further component string.
_join(root, s) == normpath(PathStr(root) \o <<"/">> \o s)

(***************************************************************************)
(* Input lines (TestPipeline._is_valid_entry and its helpers)              *)
(***************************************************************************)

Letters == {"a", "b", "c", "d", "f", "g", "h", "p", "r", "s", "t", "x", "z"}
Digits == {"2"}

\* The characters urllib accepts in a scheme (urllib.parse.scheme_chars).
SchemeChars == Letters \cup Digits \cup {"+", "-", "."}

\* The first position of s at or after 'from' holding one of chars; Len(s) + 1 if none.
FirstOf(s, chars, from) ==
  LET hits == {i \in from..Len(s) : s[i] \in chars}
  IN IF hits = {} THEN Len(s) + 1 ELSE CHOOSE i \in hits : \A j \in hits : i <= j

\* urllib.parse.urlparse(s), its scheme, netloc and path: the scheme is what
\* precedes the first ':' when that is a letter followed by scheme characters;
\* the netloc follows '//' up to the next '/', '?' or '#'; the path ends at the
\* first ';', '?' or '#'.
urlparse(s) ==
  LET i == Find(s, <<":">>)
      hasScheme == /\ i > 1
                   /\ s[1] \in Letters
                   /\ \A k \in 1..(i - 1) : s[k] \in SchemeChars
      rest == IF hasScheme THEN SubSeq(s, i + 1, Len(s)) ELSE s
      hasNetloc == StartsWith(rest, <<"/", "/">>)
      delim == FirstOf(rest, {"/", "?", "#"}, 3)
      afterNetloc == IF hasNetloc THEN SubSeq(rest, delim, Len(rest)) ELSE rest
      pathEnd == FirstOf(afterNetloc, {";", "?", "#"}, 1)
  IN [scheme |-> IF hasScheme THEN SubSeq(s, 1, i - 1) ELSE <<>>,
      netloc |-> IF hasNetloc THEN SubSeq(rest, 3, delim - 1) ELSE <<>>,
      path   |-> SubSeq(afterNetloc, 1, pathEnd - 1)]

Http == <<"h", "t", "t", "p">>
HttpPrefix == <<"h", "t", "t", "p", ":", "/", "/">>

\* _is_http_url_entry with a slip: a URL without a path is accepted.
_is_http_url_entry_without_path(s) ==
  LET r == urlparse(s)
  IN IF r.scheme # Http \/ r.netloc = <<>> THEN FALSE
     ELSE IF EndsWith(s, <<"/">>) THEN FALSE
     ELSE IF SearchDoubledSep(SubSeq(s, Len(HttpPrefix) + 1, Len(s))) THEN FALSE
     ELSE TRUE

_is_http_url_entry(s) ==
  LET r == urlparse(s)
  IN IF r.scheme # Http \/ r.netloc = <<>> \/ r.path = <<>> THEN FALSE
     ELSE IF EndsWith(s, <<"/">>) THEN FALSE
     ELSE IF SearchDoubledSep(SubSeq(s, Len(HttpPrefix) + 1, Len(s))) THEN FALSE
     ELSE TRUE

_is_path_entry(s) ==
  IF SearchDoubledSep(s) THEN FALSE
  ELSE IF EndsWith(s, <<"/">>) THEN FALSE
  ELSE IF StartsWith(s, <<"~">>) THEN StartsWith(s, <<"~", "/">>)
  ELSE IF StartsWith(s, <<"^">>) THEN StartsWith(s, <<"^", "/">>)
  ELSE TRUE

\* TestPipeline._archive_suf
_archive_suf == <<".", "t", "a", "r", ".", "b", "z", "2">>

\* Whether the regular expression '.tar.bz2' matches s at position i: as a
\* regular expression each '.' of the suffix stands for any character.
SufRegexAt(s, i) ==
  /\ i + Len(_archive_suf) - 1 <= Len(s)
  /\ \A k \in 1..Len(_archive_suf) :
       _archive_suf[k] = "." \/ s[i + k - 1] = _archive_suf[k]

RECURSIVE CountSufMatches(_, _)
\* len(re.findall(self._archive_suf, line)): the matches do not overlap.
CountSufMatches(s, from) ==
  LET hits == {i \in from..Len(s) : SufRegexAt(s, i)}
  IN IF hits = {} THEN 0
     ELSE LET i == CHOOSE h \in hits : \A j \in hits : h <= j
          IN 1 + CountSufMatches(s, i + Len(_archive_suf))

_is_valid_entry(line) ==
  IF line = <<>> THEN TRUE
  ELSE IF StartsWith(line, <<"#">>) THEN TRUE
  ELSE IF CountSufMatches(line, 1) > 1 THEN FALSE
  ELSE _is_http_url_entry(line) \/ _is_path_entry(line)

\* TestPipeline._split: line.partition(self._archive_suf), on the literal suffix.
\* ok is FALSE when the assertion on the remainder fails.
_split(line) ==
  LET i == Find(line, _archive_suf)
      l == SubSeq(line, 1, i - 1)
      r == SubSeq(line, i + Len(_archive_suf), Len(line))
  IN IF i > 0
       THEN [ok  |-> r = <<>> \/ (Len(r) > 1 /\ StartsWith(r, <<"/">>)),
             pre |-> l \o _archive_suf,
             suf |-> r]
       ELSE [ok |-> TRUE, pre |-> <<>>, suf |-> line]

(***************************************************************************)
(* The file system (os, shutil)                                            *)
(***************************************************************************)

\* A directory in which the process may not make entries.
ReadOnlyDir == "dir, not writable"

\* A file system maps every path that exists to "dir", to ReadOnlyDir or to
\* a file's content.
exists(fs, p) == p \in DOMAIN fs
isdir(fs, p) == p \in DOMAIN fs /\ fs[p] \in {"dir", ReadOnlyDir}
isfile(fs, p) == p \in DOMAIN fs /\ fs[p] \notin {"dir", ReadOnlyDir}

\* Whether an entry can be made in the directory p.
writable(fs, p) == fs[p] # ReadOnlyDir

\* Whether q lies at or below p.
Below(q, p) == Len(q) >= Len(p) /\ SubSeq(q, 1, Len(p)) = p

\* os.listdir(p), as the paths of the entries.
listdir(fs, p) == {q \in DOMAIN fs : Len(q) = Len(p) + 1 /\ Below(q, p)}

\* The files at or below p: what the traversal of p reaches as leaves.
LeafFiles(fs, p) == {q \in DOMAIN fs : Below(q, p) /\ isfile(fs, q)}

RECURSIVE OsWalk(_, _, _)
\* The kernel's resolution of the components of an absolute path string, from
\* directory cur: ".." is the parent (the root is its own parent), and every
\* component is looked up in an existing directory.  ok is FALSE when a lookup
\* is made in something that is no directory.
OsWalk(fs, comps, cur) ==
  IF comps = <<>> THEN [ok |-> TRUE, path |-> cur]
  ELSE LET c == Head(comps)
       IN IF c = <<>> THEN OsWalk(fs, Tail(comps), cur)
          ELSE IF ~isdir(fs, cur) THEN [ok |-> FALSE, path |-> cur]
          ELSE IF c = Dot THEN OsWalk(fs, Tail(comps), cur)
          ELSE IF c = DotDot THEN OsWalk(fs, Tail(comps), dirname(cur))
          ELSE OsWalk(fs, Tail(comps), Append(cur, c))

\* The path an absolute path string names for the kernel.
Resolve(fs, s) == OsWalk(fs, SplitOn(s, "/"), <<>>)

\* os.makedirs(p, exist_ok=True): fails when p or one of its ancestors exists
\* and is no directory, or when a directory is to be made where the process
\* may not make entries.
makedirs(fs, p) ==
  LET prefixes == {SubSeq(p, 1, n) : n \in 0..Len(p)}
      denied == \E q \in prefixes \ DOMAIN fs :
                  exists(fs, dirname(q)) /\ ~writable(fs, dirname(q))
  IN IF denied \/ \E q \in prefixes : isfile(fs, q)
       THEN [ok |-> FALSE, fs |-> fs]
       ELSE [ok |-> TRUE,
             fs |-> [q \in DOMAIN fs \cup prefixes |->
                       IF q \in DOMAIN fs THEN fs[q] ELSE "dir"]]

\* shutil.copy2 with a slip: nothing is copied.
copy2_skipped(fs, src, tgt) == fs

\* shutil.copy2(src, tgt) into an existing directory: tgt gets the content of src.
copy2(fs, src, tgt) ==
  [q \in DOMAIN fs \cup {tgt} |-> IF q = tgt THEN fs[src] ELSE fs[q]]

\* shutil.copytree(src, tgt) for a tgt that does not exist: the entries of
\* src are listed, os.makedirs(tgt) is called, and every entry below src is
\* copied to the same place below tgt. When tgt lies below a directory that
\* src holds, the copy of that directory reaches the tree being made and
\* goes down it until the recursion is cut off with an error; what it has
\* made by then is left out here.
copytree(fs, src, tgt) ==
  LET made == makedirs(fs, tgt)
      image(q) == tgt \o SubSeq(q, Len(src) + 1, Len(q))
      below == {q \in DOMAIN fs : Below(q, src)}
      new == {image(q) : q \in below}
      endless == \E q \in below : q # src /\ isdir(fs, q) /\ Below(tgt, q)
  IN IF ~made.ok THEN made
     ELSE IF endless THEN [ok |-> FALSE, fs |-> fs]
     ELSE [ok |-> TRUE,
           fs |-> [t \in DOMAIN made.fs \cup new |->
                     IF t \in new
                       THEN fs[CHOOSE q \in below : image(q) = t]
                       ELSE made.fs[t]]]

RECURSIVE _copy_and_merge(_, _, _)
RECURSIVE MergeEntries(_, _, _, _)
\* The loop of _copy_and_merge over the entries of a source directory.
MergeEntries(fs, entries, src, tgt) ==
  IF entries = {} THEN [ok |-> TRUE, fs |-> fs]
  ELSE LET e == CHOOSE q \in entries : TRUE
           name == e[Len(e)]
           one == _copy_and_merge(fs, e, Append(tgt, name))
       IN IF ~one.ok THEN one
          ELSE MergeEntries(one.fs, entries \ {e}, src, tgt)

\* TestPipeline._copy_and_merge(src, tgt) for a source that exists: a file is
\* copied unless the target exists; a directory is merged into an existing
\* target directory entry by entry, left alone if the target is a file, and
\* copied as a tree if the target does not exist.
_copy_and_merge(fs, src, tgt) ==
  IF isfile(fs, src)
    THEN IF ~exists(fs, tgt)
           THEN LET made == makedirs(fs, dirname(tgt))
                IN IF ~made.ok THEN made
                   ELSE IF ~writable(made.fs, dirname(tgt))
                     THEN [ok |-> FALSE, fs |-> made.fs]
                   ELSE [ok |-> TRUE, fs |-> copy2(made.fs, src, tgt)]
           ELSE [ok |-> TRUE, fs |-> fs]
  ELSE IF exists(fs, tgt)
    THEN IF isfile(fs, tgt)
           THEN [ok |-> TRUE, fs |-> fs]
           ELSE MergeEntries(fs, listdir(fs, src), src, tgt)
  ELSE copytree(fs, src, tgt)

(***************************************************************************)
(* The scenarios: input files, passes and file systems                     *)
(***************************************************************************)

\* The largest number of passes the driver script registers.
MaxPasses == 2
\* The wall clock stops advancing at MaxTime.
MaxTime == 2

W == <<"w">>
NameA == <<"a">>
NameD == <<"d">>
NameF == <<"f">>
NameG == <<"g">>
NameX == <<"x">>

\* The directory the driver is started in, and the caller's home directory.
StartDir == <<W>>
HomeDir == <<<<"h">>>>

\* The input file, as test() opens it after setup() made its name absolute.
InputFile == <<W, <<"i">>>>

\* Input lines.
LineA == <<"a">>
LineD == <<"d", " ">>
LineComment == <<"#", " ", "c">>
LineBlank == <<" ">>
LineDoubled == <<"a", "/", "/", "b">>
LineMissing == <<"z">>
LineArchive == <<"a", ".", "t", "a", "r", ".", "b", "z", "2">>
LineUp == <<"^", "/", ".", ".", "/", ".", ".", "/", ".", ".", "/", "x">>
LineHome == <<"~", "/", "b">>
LineHttp == <<"h", "t", "t", "p", ":", "/", "/", "h", "/", "p">>

\* The input files of the scenarios (the lines as read, before strip()).
InputFiles ==
  { <<LineA, LineComment, LineD>>,
    <<LineMissing, LineBlank, LineA>>,
    <<LineD, LineDoubled, LineDoubled>>,
    <<LineUp, LineHome>>,
    <<LineArchive, LineA>>,
    <<LineHttp, LineA>> }

\* The names of the three artifacts of a RunPass with an empty prefix, shortened.
OutStdout == <<"s", "o">>
OutStderr == <<"s", "e">>
OutData == <<"d", "t">>

\* The calls in the source of a pass that open a file, as validate_function
\* sees them in the syntax tree: open(...), whose func is an ast.Name with the
\* id 'open', and io.open(...), whose func is an ast.Attribute and has no id.
OpenByName == [id |-> <<"open">>, opens_file |-> TRUE]
OpenByAttribute == [id |-> <<>>, opens_file |-> TRUE]

\* A pass without an output attribute (FalsePass, or a pass of the driver
\* script), a pass that declares output (RunPass), and a pass whose __call__
\* calls open(). What a CheckPass returns is computed by CheckPassCall; its
\* __call__ calls subprocess.run and re.search, and has no output attribute.
\* The __call__ of IoOpeningPass writes a file it opens with io.open().
CheckingPass == [name |-> "check", has_output |-> FALSE, output |-> <<>>, calls |-> {}]
ProducingPass ==
  [name |-> "run", has_output |-> TRUE,
   output |-> <<OutStdout, OutStderr, OutData>>, calls |-> {}]
OpeningPass ==
  [name |-> "opens", has_output |-> FALSE, output |-> <<>>, calls |-> {OpenByName}]
PassPool == {CheckingPass, ProducingPass, OpeningPass}
TheCheckPass == [name |-> "CheckPass", has_output |-> FALSE, output |-> <<>>, calls |-> {}]
IoOpeningPass ==
  [name |-> "io_opens", has_output |-> FALSE, output |-> <<>>, calls |-> {OpenByAttribute}]

\* The analysis and output roots the constructor may be given.
AnalysisRootArgs == { <<"A">> }
OutputRootArgs == { <<"O">>, <<"/", "O">> }

\* The files of the caller: /w/i (the input file), /w/a, /w/d/f, /w/d/g, /x, /h/b.
UserFiles ==
  ( <<>> :> "dir" ) @@ ( <<W>> :> "dir" ) @@ ( InputFile :> "input" ) @@
  ( <<W, NameA>> :> "ca" ) @@ ( <<W, NameD>> :> "dir" ) @@
  ( <<W, NameD, NameF>> :> "cf" ) @@ ( <<W, NameD, NameG>> :> "cg" ) @@
  ( <<NameX>> :> "cx" ) @@ ( HomeDir :> "dir" ) @@ ( Append(HomeDir, <<"b">>) :> "cb" )

\* What earlier runs may have left below the roots: nothing; an older copy of
\* /w/a in the analysis root; a file where the output directory of /w/a goes;
\* a directory where the stderr artifact of /w/a goes.
LeftOldCopy(aroot) ==
  LET tgt == aroot \o <<W, NameA>>
  IN copy2(makedirs(UserFiles, dirname(tgt)).fs, InputFile, tgt)
LeftOutputFile(oroot) ==
  LET tgt == oroot \o <<W, NameA>>
  IN copy2(makedirs(UserFiles, dirname(tgt)).fs, InputFile, tgt)
LeftArtifactDir(oroot) ==
  makedirs(UserFiles, oroot \o <<W, NameA, OutStderr>>).fs
FileSystems(aroot, oroot) ==
  {UserFiles, LeftOldCopy(aroot), LeftOutputFile(oroot), LeftArtifactDir(oroot)}

\* os.path.abspath(s) with the working directory cwd.
abspath(s, cwd) ==
  IF StartsWith(s, <<"/">>) THEN normpath(s) ELSE normpath(PathStr(cwd) \o <<"/">> \o s)

\* What a command may write to stdout and to stderr, and its return codes.
Stdouts == {<<>>, <<"f", "\n">>}
Stderrs == {<<>>, <<"e">>}
ReturnCodes == {0, 1}

\* What subprocess.run may do: the command completes, it runs longer than
\* the timeout, or it cannot be started.
CompletedRuns ==
  [kind : {"completed"}, returncode : ReturnCodes, stdout : Stdouts, stderr : Stderrs]
TimedOutRun == [kind |-> "timeout", returncode |-> 0, stdout |-> <<>>, stderr |-> <<>>]
FailedSpawn == [kind |-> "nospawn", returncode |-> 0, stdout |-> <<>>, stderr |-> <<>>]
NoRun == [kind |-> "none", returncode |-> 0, stdout |-> <<>>, stderr |-> <<>>]

\* The attributes of a CheckPass. A predicate is the set of the values it
\* accepts, the default lambda accepts each; a regex that is not given is
\* None, which <<>> stands for; the timeout is <<>> for None or <<t>>.
\* CheckPass(cmd) with the default of every other argument:
DefaultCheckPass ==
  [regex_stdout |-> <<>>, regex_stderr |-> <<>>, retcode |-> ReturnCodes,
   check_stdout |-> Stdouts, check_stderr |-> Stderrs, timeout |-> <<>>]

\* CheckPass(cmd, 'f', 'e', lambda r: r == 0, lambda o: o == 'f\n',
\* lambda e: e == '', 1), a CheckPass with every argument given.
StrictCheckPass ==
  [regex_stdout |-> <<"f">>, regex_stderr |-> <<"e">>, retcode |-> {0},
   check_stdout |-> {<<"f", "\n">>}, check_stderr |-> {<<>>}, timeout |-> <<1>>]

\* The CheckPasses of the driver scripts: the two above, and those with one
\* argument given.
CheckPasses ==
  {DefaultCheckPass, StrictCheckPass} \cup
  {[DefaultCheckPass EXCEPT ![a] = StrictCheckPass[a]] : a \in DOMAIN DefaultCheckPass}

(***************************************************************************)
(* The state of a TestPipeline and of the process that runs it             *)
(***************************************************************************)

VARIABLES
  input,            \* the lines of the input file
  _analysis_root,   \* TestPipeline._analysis_root
  _output_root,     \* TestPipeline._output_root
  _start_line,      \* TestPipeline._start_line
  _num_lines,       \* TestPipeline._num_lines
  _timeout,         \* TestPipeline._timeout; 0 stands for None (both are false)
  _passes,          \* TestPipeline._passes
  _setup_done,      \* TestPipeline._setup_done
  _starting_time,   \* TestPipeline._starting_time
  pc,               \* where the driver script is
  exc,              \* the exception that ended the script, "none" if none did
  fatal_line,       \* the line number fatal() named, 0 if it was not called
  lines,            \* test(): lines
  i,                \* test(): i
  n,                \* test(): n
  worklist,         \* _handle_local_path(): worklist
  p1,               \* _handle_local_path(): p1, the f of _run_analysis
  p2,               \* _handle_local_path(): p2, the output_dir of _run_analysis
  saved_cwd,        \* _run_analysis(): cwd
  k,                \* _run_analysis(): the position of p in self._passes
  fos,              \* _run_analysis(): fos
  cwd,              \* the working directory of the process
  handles,          \* the files the process holds open for writing
  now,              \* the wall clock, time.time()
  fs,               \* the file system
  chain,            \* the passes invoked for the file at hand and how each ended
  visited,          \* the <<line number, file>> pairs a chain was started for
  expected,         \* the <<line number, file>> pairs materialization found
  abandoned,        \* the numbers of the lines whose handling raised an error
  handled,          \* the numbers of the lines test() handled, in order
  self_timeout,     \* RunPass.timeout; <<>> stands for None, <<t>> for t
  at,               \* where RunPass.__call__ is, "idle" when it is not running
  timeout,          \* RunPass.__call__(): timeout
  ret,              \* RunPass.__call__(): r; <<>> stands for None, <<c>> for c
  before,           \* RunPass.__call__(): before
  after,            \* RunPass.__call__(): after
  deadline,         \* the time at which p.wait(timeout) gives up
  popen,            \* RunPass.__call__(): p, the process psutil.Popen created
  threads,          \* the MeasureMemoryUsage threads started, in order
  rusage,           \* resource.getrusage(resource.RUSAGE_CHILDREN)
  _utime_sum,       \* the global _utime_sum
  _stime_sum,       \* the global _stime_sum
  data,             \* the lines written to data, the third of output_files
  calls,            \* the number of invocations of RunPass so far
  outcome,          \* how the last invocation ended, "none" while it runs
  expired,          \* whether p.wait(timeout) raised psutil.TimeoutExpired
  check_pass,       \* the CheckPass of the driver script: its attributes
  cp,               \* CheckPass.__call__(): what subprocess.run did when last called
  arg,              \* the arguments of a helper that is called on its own
  returned          \* what the calls of that helper returned, in order

config == <<input, _analysis_root, _output_root, _start_line, _num_lines, _timeout>>
driver == <<_passes, _setup_done, _starting_time, pc, exc, fatal_line>>
loop == <<lines, i, n, worklist>>
analysis == <<p1, p2, saved_cwd, k, fos>>
process == <<cwd, handles, now, fs>>
history == <<chain, visited, expected, abandoned, handled>>
invocation == <<self_timeout, at, timeout, ret, before, after, deadline>>
children == <<popen, threads, rusage>>
metrics == <<_utime_sum, _stime_sum, data, calls, outcome, expired>>
metering == <<invocation, children, metrics>>
checking == <<check_pass, cp>>
helper == <<arg, returned>>
vars == <<config, driver, loop, analysis, process, history, metering, checking, helper>>

\* RunPass.__init__ with timeout t, and the module globals, in a process in
\* which RunPass has not been invoked.
NewRunPass(t) ==
  /\ self_timeout = t
  /\ at = "idle"
  /\ timeout = FALSE
  /\ ret = <<>>
  /\ before = 0
  /\ after = 0
  /\ deadline = 0
  /\ popen = <<>>
  /\ threads = <<>>
  /\ rusage = [ru_utime |-> 0, ru_stime |-> 0]
  /\ _utime_sum = 0
  /\ _stime_sum = 0
  /\ data = <<>>
  /\ calls = 0
  /\ outcome = "none"
  /\ expired = FALSE

\* CheckPass.__init__ with the attributes of self, not called yet.
NewCheckPass(self) ==
  /\ check_pass = self
  /\ cp = NoRun

\* No helper is called on its own.
NoHelper ==
  /\ arg = <<>>
  /\ returned = <<>>

\* TestPipeline.__init__ with its arguments, in a process started in StartDir
\* with the files in files.
NewTestPipeline(input_file, analysis_root, output_root, start_line, num_lines, time_limit, files) ==
  /\ input = input_file
  /\ _analysis_root = analysis_root
  /\ _output_root = output_root
  /\ _start_line = start_line
  /\ _num_lines = num_lines
  /\ _timeout = time_limit
  /\ _passes = <<>>
  /\ _setup_done = FALSE
  /\ _starting_time = 0
  /\ pc = "new"
  /\ exc = "none"
  /\ fatal_line = 0
  /\ lines = <<>>
  /\ i = 0
  /\ n = 0
  /\ worklist = <<>>
  /\ p1 = <<>>
  /\ p2 = <<>>
  /\ saved_cwd = StartDir
  /\ k = 0
  /\ fos = <<>>
  /\ cwd = StartDir
  /\ handles = {}
  /\ now = 0
  /\ fs = files
  /\ chain = <<>>
  /\ visited = {}
  /\ expected = {}
  /\ abandoned = {}
  /\ handled = <<>>

\* A driver script constructs its TestPipeline; its passes are not metered here.
Init ==
  /\ \E input_file \in InputFiles, analysis_root \in AnalysisRootArgs,
        output_root \in OutputRootArgs, start_line \in {1, 3},
        num_lines \in {1, 5}, time_limit \in {0, 1} :
       \E files \in FileSystems(abspath(analysis_root, StartDir),
                                abspath(output_root, StartDir)) :
         NewTestPipeline(input_file, analysis_root, output_root, start_line,
                         num_lines, time_limit, files)
  /\ NewRunPass(<<>>)
  /\ NewCheckPass(DefaultCheckPass)
  /\ NoHelper

(***************************************************************************)
(* Materialization of one input line                                       *)
(***************************************************************************)

\* TestPipeline._expand_path(path), as a string: a '^' entry is put behind the
\* directory of the input file as it is; every other entry goes through
\* os.path.expanduser and os.path.abspath.
_expand_path(path, dir) ==
  IF StartsWith(path, <<"^">>)
    THEN PathStr(dirname(InputFile)) \o Tail(path)
    ELSE LET user == IF StartsWith(path, <<"~">>)
                       THEN PathStr(HomeDir) \o Tail(path)
                       ELSE path
         IN PathStr(abspath(user, dir))

\* TestPipeline._indicates_url(r)
_indicates_url(r) == FALSE

\* _handle_simple_entry with a slip: a path entry is not copied.
_handle_simple_entry_without_copy(f, entry, dir) ==
  LET r == urlparse(entry)
      parts == JoinWith(<<r.scheme, r.netloc, r.path>>, "/")
      path == _expand_path(entry, dir)
      src == Resolve(f, path)
  IN IF _indicates_url(r)
       THEN LET analysis_path == _join(_analysis_root, parts)
                made == makedirs(f, dirname(analysis_path))
            IN [raised |-> ~exists(f, analysis_path) /\ ~made.ok,
                fs |-> IF exists(f, analysis_path) \/ ~made.ok THEN f
                       ELSE [q \in DOMAIN made.fs \cup {analysis_path} |->
                               IF q = analysis_path THEN "download" ELSE made.fs[q]],
                analysis_path |-> analysis_path,
                output_path |-> _join(_output_root, parts)]
       ELSE LET analysis_path == _join(_analysis_root, path)
                copied == [ok |-> src.ok /\ exists(f, src.path), fs |-> f]
            IN [raised |-> ~copied.ok,
                fs |-> copied.fs,
                analysis_path |-> analysis_path,
                output_path |-> _join(_output_root, path)]

\* TestPipeline._handle_simple_entry(entry) on file system f with working
\* directory dir: raised when an assertion or a file operation fails, else the
\* file system after materialization and the pair of paths returned.
_handle_simple_entry(f, entry, dir) ==
  LET r == urlparse(entry)
      parts == JoinWith(<<r.scheme, r.netloc, r.path>>, "/")
      path == _expand_path(entry, dir)
      src == Resolve(f, path)
  IN IF _indicates_url(r)
       THEN LET analysis_path == _join(_analysis_root, parts)
                made == makedirs(f, dirname(analysis_path))
            IN [raised |-> ~exists(f, analysis_path) /\ ~made.ok,
                fs |-> IF exists(f, analysis_path) \/ ~made.ok THEN f
                       ELSE [q \in DOMAIN made.fs \cup {analysis_path} |->
                               IF q = analysis_path THEN "download" ELSE made.fs[q]],
                analysis_path |-> analysis_path,
                output_path |-> _join(_output_root, parts)]
       ELSE LET analysis_path == _join(_analysis_root, path)
                copied == IF src.ok /\ exists(f, src.path)
                            THEN _copy_and_merge(f, src.path, analysis_path)
                            ELSE [ok |-> FALSE, fs |-> f]
            IN [raised |-> ~copied.ok,
                fs |-> copied.fs,
                analysis_path |-> analysis_path,
                output_path |-> _join(_output_root, path)]

\* _handle_line with a slip: an archive entry is handled as the path it is
\* named after, without the suffix.
_handle_line_by_stem(f, line, dir) ==
  LET sp == _split(line)
  IN IF ~sp.ok
       THEN [raised |-> TRUE, fs |-> f, analysis_path |-> <<>>, output_path |-> <<>>]
       ELSE IF sp.pre # <<>>
         THEN _handle_simple_entry(f, SubSeq(sp.pre, 1, Len(sp.pre) - Len(_archive_suf)), dir)
         ELSE _handle_simple_entry(f, sp.suf, dir)

\* TestPipeline._handle_line(line) up to the call of _handle_local_path: an
\* archive entry is given to _handle_archive_entry, which does not take the
\* two arguments and so raises.
_handle_line(f, line, dir) ==
  LET sp == _split(line)
  IN IF ~sp.ok \/ sp.pre # <<>>
       THEN [raised |-> TRUE, fs |-> f, analysis_path |-> <<>>, output_path |-> <<>>]
       ELSE _handle_simple_entry(f, sp.suf, dir)

(***************************************************************************)
(* The driver script: setup(), add_pass(), test()                          *)
(***************************************************************************)

\* _validate_lines with a slip: only the lines from start_line on are looked at.
_validate_lines_from_start(ls) ==
  LET bad == {m \in _start_line..Len(ls) : ~_is_valid_entry(ls[m])}
  IN IF bad = {} THEN 0 ELSE CHOOSE m \in bad : \A j \in bad : m <= j

\* TestPipeline._validate_lines: 0 when every line is valid, else the 1-based
\* number of the first invalid line, with which fatal() is called.
_validate_lines(ls) ==
  LET bad == {m \in 1..Len(ls) : ~_is_valid_entry(ls[m])}
  IN IF bad = {} THEN 0 ELSE CHOOSE m \in bad : \A j \in bad : m <= j

\* TestPipeline.timed_out()
timed_out ==
  IF _timeout # 0 THEN now - _starting_time > _timeout ELSE FALSE

\* TestPipeline.validate_function(f): no call in the source of f has a func
\* with the id 'open'.
validate_function(f) == \A c \in f.calls : c.id # <<"open">>

\* TestPipeline.validate_pass(p): validate_function on p.__call__.
validate_pass(p) == validate_function(p)

\* test() with a slip: TimeoutException is handled like any other error.
test_catches_timeout(e) == e # "KeyboardInterrupt"

\* test() with a slip: no error is handled, each ends the script.
test_catches_nothing(e) == FALSE

\* The except clauses of test(): what it catches and does not raise again.
test_catches(e) == e \notin {"KeyboardInterrupt", "TimeoutException"}

\* _run_analysis() with a slip: no clause raises KeyboardInterrupt again.
run_analysis_catches_everything(e) == TRUE

\* _run_analysis() with a slip: the fault of a pass is not handled.
run_analysis_catches_nothing(e) == FALSE

\* The except clauses of _run_analysis(): what it catches and does not raise again.
run_analysis_catches(e) == e # "KeyboardInterrupt"

\* An exception reaches the try statement of test() while line i is handled:
\* test() goes on with the next line, or the exception ends the script.
RaiseInTest(e) ==
  IF test_catches(e)
    THEN /\ pc' = "loop"
         /\ i' = i + 1
         /\ abandoned' = abandoned \cup {i}
         /\ exc' = exc
    ELSE /\ pc' = "exited"
         /\ i' = i
         /\ abandoned' = abandoned
         /\ exc' = e

\* TestPipeline.setup()
Setup ==
  /\ pc = "new"
  /\ _starting_time' = now
  /\ _analysis_root' = abspath(_analysis_root, cwd)
  /\ _output_root' = abspath(_output_root, cwd)
  /\ _setup_done' = TRUE
  /\ pc' = "setup"
  /\ UNCHANGED <<input, _start_line, _num_lines, _timeout, _passes, exc, fatal_line>>
  /\ UNCHANGED <<loop, analysis, process, history>>
  /\ UNCHANGED <<metering, checking, helper>>

\* TestPipeline.add_pass(p) for a pass that validate_pass accepts.
AddPass(p) ==
  /\ pc = "setup"
  /\ _setup_done
  /\ Len(_passes) < MaxPasses
  /\ validate_pass(p)
  /\ _passes' = Append(_passes, p)
  /\ UNCHANGED <<_setup_done, _starting_time, pc, exc, fatal_line>>
  /\ UNCHANGED <<config, loop, analysis, process, history>>
  /\ UNCHANGED <<metering, checking, helper>>

\* TestPipeline.add_pass(p) for a pass that validate_pass rejects: the
\* assertion fails in the driver script.
RejectPass(p) ==
  /\ pc = "setup"
  /\ _setup_done
  /\ ~validate_pass(p)
  /\ pc' = "exited"
  /\ exc' = "AssertionError"
  /\ UNCHANGED <<_passes, _setup_done, _starting_time, fatal_line>>
  /\ UNCHANGED <<config, loop, analysis, process, history>>
  /\ UNCHANGED <<metering, checking, helper>>

\* TestPipeline.test() up to its loop: the lines are read and stripped, and
\* _validate_lines either calls fatal() or returns.
StartTest ==
  /\ pc = "setup"
  /\ LET read == [j \in 1..Len(input) |-> Strip(input[j])]
         bad == _validate_lines(read)
     IN /\ lines' = read
        /\ IF bad # 0
             THEN /\ fatal_line' = bad
                  /\ exc' = "SystemExit"
                  /\ pc' = "exited"
                  /\ i' = i
             ELSE /\ fatal_line' = fatal_line
                  /\ exc' = exc
                  /\ pc' = "loop"
                  /\ i' = _start_line
  /\ n' = 0
  /\ UNCHANGED <<_passes, _setup_done, _starting_time, worklist>>
  /\ UNCHANGED <<config, analysis, process, history>>
  /\ UNCHANGED <<metering, checking, helper>>

\* test(): the loop ends, by the range or by the break.
Finish ==
  /\ pc = "loop"
  /\ i > Len(lines) \/ n >= _num_lines
  /\ pc' = "done"
  /\ UNCHANGED <<_passes, _setup_done, _starting_time, exc, fatal_line>>
  /\ UNCHANGED <<config, loop, analysis, process, history>>
  /\ UNCHANGED <<metering, checking, helper>>

\* test() with a slip: a blank line or a comment is counted as an entry.
SkipLineCounting ==
  /\ pc = "loop"
  /\ i <= Len(lines)
  /\ n < _num_lines
  /\ lines[i] = <<>> \/ StartsWith(lines[i], <<"#">>)
  /\ i' = i + 1
  /\ n' = n + 1
  /\ UNCHANGED <<lines, worklist>>
  /\ UNCHANGED <<config, driver, analysis, process, history>>
  /\ UNCHANGED <<metering, checking, helper>>

\* test(): a blank line or a comment is passed over.
SkipLine ==
  /\ pc = "loop"
  /\ i <= Len(lines)
  /\ n < _num_lines
  /\ lines[i] = <<>> \/ StartsWith(lines[i], <<"#">>)
  /\ i' = i + 1
  /\ UNCHANGED <<lines, n, worklist>>
  /\ UNCHANGED <<config, driver, analysis, process, history>>
  /\ UNCHANGED <<metering, checking, helper>>

\* test(): an entry is counted and _handle_line materializes it; the worklist
\* of _handle_local_path is seeded if the analysis path exists.
HandleLine ==
  /\ pc = "loop"
  /\ i <= Len(lines)
  /\ n < _num_lines
  /\ lines[i] # <<>>
  /\ ~StartsWith(lines[i], <<"#">>)
  /\ n' = n + 1
  /\ handled' = Append(handled, i)
  /\ LET h == _handle_line(fs, lines[i], cwd)
     IN /\ fs' = h.fs
        /\ IF h.raised
             THEN /\ RaiseInTest("Exception")
                  /\ UNCHANGED <<worklist, expected>>
             ELSE IF exists(h.fs, h.analysis_path)
               THEN /\ worklist' = << <<h.analysis_path, h.output_path>> >>
                    /\ expected' = expected \cup
                         {<<i, q>> : q \in LeafFiles(h.fs, h.analysis_path)}
                    /\ pc' = "worklist"
                    /\ UNCHANGED <<i, abandoned, exc>>
               ELSE /\ i' = i + 1
                    /\ UNCHANGED <<pc, worklist, expected, abandoned, exc>>
  /\ UNCHANGED <<_passes, _setup_done, _starting_time, fatal_line, lines>>
  /\ UNCHANGED <<config, analysis, cwd, handles, now, chain, visited>>
  /\ UNCHANGED <<metering, checking, helper>>

(***************************************************************************)
(* The work driver: _handle_local_path()                                   *)
(***************************************************************************)

\* The orders in which os.listdir may give a set of entries.
Orderings(S) ==
  {o \in [1..Cardinality(S) -> S] : \A a, b \in 1..Cardinality(S) : o[a] = o[b] => a = b}

\* worklist.pop()
Top == worklist[Len(worklist)]
Popped == SubSeq(worklist, 1, Len(worklist) - 1)

\* _handle_local_path(): the worklist is empty, _handle_line returns and test()
\* goes to the next line.
ReturnToLoop ==
  /\ pc = "worklist"
  /\ worklist = <<>>
  /\ pc' = "loop"
  /\ i' = i + 1
  /\ UNCHANGED <<_passes, _setup_done, _starting_time, exc, fatal_line>>
  /\ UNCHANGED <<lines, n, worklist>>
  /\ UNCHANGED <<config, analysis, process, history>>
  /\ UNCHANGED <<metering, checking, helper>>

\* _handle_local_path(): a directory is replaced by its entries, each paired
\* with the entry of the same name below the output path.
Expand ==
  /\ pc = "worklist"
  /\ worklist # <<>>
  /\ isdir(fs, Top[1])
  /\ \E o \in Orderings(listdir(fs, Top[1])) :
       worklist' = Popped \o
         [j \in 1..Len(o) |-> <<o[j], Append(Top[2], o[j][Len(o[j])])>>]
  /\ UNCHANGED <<lines, i, n>>
  /\ UNCHANGED <<config, driver, analysis, process, history>>
  /\ UNCHANGED <<metering, checking, helper>>

\* _handle_local_path(): the deadline has passed when a file is reached.
DeadlineExceeded ==
  /\ pc = "worklist"
  /\ worklist # <<>>
  /\ ~isdir(fs, Top[1])
  /\ timed_out
  /\ worklist' = Popped
  /\ RaiseInTest("TimeoutException")
  /\ UNCHANGED <<_passes, _setup_done, _starting_time, fatal_line>>
  /\ UNCHANGED <<lines, n>>
  /\ UNCHANGED <<config, analysis, process, chain, visited, expected, handled>>
  /\ UNCHANGED <<metering, checking, helper>>

\* _handle_local_path(): os.makedirs raises for the output directory of a file.
MakedirsFails ==
  /\ pc = "worklist"
  /\ worklist # <<>>
  /\ ~isdir(fs, Top[1])
  /\ ~timed_out
  /\ ~makedirs(fs, Top[2]).ok
  /\ worklist' = Popped
  /\ RaiseInTest("Exception")
  /\ UNCHANGED <<_passes, _setup_done, _starting_time, fatal_line>>
  /\ UNCHANGED <<lines, n>>
  /\ UNCHANGED <<config, analysis, process, chain, visited, expected, handled>>
  /\ UNCHANGED <<metering, checking, helper>>

\* _handle_local_path() with a slip: the output directory is not made.
NoOutputDir(f, dir) == [ok |-> TRUE, fs |-> f]

\* The output directory is there when _run_analysis(p1, p2) is called.
EnsureOutputDir(f, dir) == makedirs(f, dir)

\* _handle_local_path(): the output directory of a file is made and
\* _run_analysis is entered: it notes the working directory and changes to the
\* directory of the file.
StartAnalysis ==
  /\ pc = "worklist"
  /\ worklist # <<>>
  /\ ~isdir(fs, Top[1])
  /\ ~timed_out
  /\ makedirs(fs, Top[2]).ok
  /\ worklist' = Popped
  /\ fs' = EnsureOutputDir(fs, Top[2]).fs
  /\ p1' = Top[1]
  /\ p2' = Top[2]
  /\ saved_cwd' = cwd
  /\ cwd' = dirname(Top[1])
  /\ k' = 1
  /\ fos' = <<>>
  /\ chain' = <<>>
  /\ visited' = visited \cup {<<i, Top[1]>>}
  /\ pc' = "chain"
  /\ UNCHANGED <<_passes, _setup_done, _starting_time, exc, fatal_line>>
  /\ UNCHANGED <<lines, i, n>>
  /\ UNCHANGED <<config, handles, now, expected, abandoned, handled>>
  /\ UNCHANGED <<metering, checking, helper>>

(***************************************************************************)
(* The pass chain: _run_analysis()                                         *)
(***************************************************************************)

\* What a pass may do when it is called: return a verdict or raise.
Verdicts == {"True", "False"}
Raised == {"Exception", "TimeoutException", "KeyboardInterrupt"}

\* The elements of a sequence.
Range(q) == {q[j] : j \in 1..Len(q)}

\* open(out, 'w') raises when out is a directory.
OpenFails(f, out) == isdir(f, out)

\* open(out, 'w'): out is created, or emptied if it is there.
Truncated(f, outs) ==
  [q \in DOMAIN f \cup outs |-> IF q \in outs THEN "" ELSE f[q]]

\* What the pass wrote to its output files when it returned.
Written(f, outs) ==
  [q \in DOMAIN f |-> IF q \in outs THEN "data" ELSE f[q]]

\* An exception leaves the try statement of the loop body of _run_analysis():
\* the loop is left by break, or the exception leaves _run_analysis,
\* _handle_local_path and _handle_line.
RaiseInChain(e) ==
  IF run_analysis_catches(e)
    THEN /\ pc' = "leave"
         /\ UNCHANGED <<i, abandoned, exc>>
    ELSE RaiseInTest(e)

\* The finally clause of a producing step: what stays open of the handles of fos.
CloseOutputs(open, opened) == open \ Range(opened)

\* _run_analysis(): the output files of a producing pass are opened in order.
\* If one open() raises, the files opened before it stay in fos.
OpenOutputs ==
  /\ pc = "chain"
  /\ k <= Len(_passes)
  /\ _passes[k].has_output
  /\ LET outs == [j \in 1..Len(_passes[k].output) |-> Append(p2, _passes[k].output[j])]
         failing == {j \in 1..Len(outs) : OpenFails(fs, outs[j])}
         upto == IF failing = {} THEN Len(outs)
                 ELSE (CHOOSE j \in failing : \A m \in failing : j <= m) - 1
         opened == SubSeq(outs, 1, upto)
     IN /\ fos' = opened
        /\ handles' = handles \cup Range(opened)
        /\ fs' = Truncated(fs, Range(opened))
        /\ IF failing = {}
             THEN /\ pc' = "opened"
                  /\ UNCHANGED <<i, abandoned, exc>>
             ELSE RaiseInChain("Exception")
  /\ UNCHANGED <<_passes, _setup_done, _starting_time, fatal_line>>
  /\ UNCHANGED <<lines, n, worklist>>
  /\ UNCHANGED <<config, p1, p2, saved_cwd, k, cwd, now, chain, visited, expected, handled>>
  /\ UNCHANGED <<metering, checking, helper>>

\* _run_analysis() with a slip: the verdict of the pass is not looked at.
AfterCallIgnoringVerdict(result) ==
  IF result \in {"True", "False"}
    THEN /\ k' = k + 1
         /\ pc' = "chain"
         /\ UNCHANGED <<i, abandoned, exc>>
    ELSE /\ k' = k
         /\ RaiseInChain(result)

\* _run_analysis() with a slip: after True the same pass is called again.
AfterCallRepeating(result) ==
  IF result = "True"
    THEN /\ k' = k
         /\ pc' = "chain"
         /\ UNCHANGED <<i, abandoned, exc>>
  ELSE IF result = "False"
    THEN /\ k' = k
         /\ pc' = "leave"
         /\ UNCHANGED <<i, abandoned, exc>>
  ELSE /\ k' = k
       /\ RaiseInChain(result)

\* How the loop of _run_analysis() goes on after the pass at k was called.
AfterCall(result) ==
  IF result = "True"
    THEN /\ k' = k + 1
         /\ pc' = "chain"
         /\ UNCHANGED <<i, abandoned, exc>>
  ELSE IF result = "False"
    THEN /\ k' = k
         /\ pc' = "leave"
         /\ UNCHANGED <<i, abandoned, exc>>
  ELSE /\ k' = k
       /\ RaiseInChain(result)

\* _run_analysis(): a pass without output is called with the file.
InvokeChecking ==
  /\ pc = "chain"
  /\ k <= Len(_passes)
  /\ ~_passes[k].has_output
  /\ _passes[k].name # "CheckPass"
  /\ \E result \in Verdicts \cup Raised : \E dt \in {0, 1} :
       /\ chain' = Append(chain, <<k, result>>)
       /\ now' = IF now + dt > MaxTime THEN MaxTime ELSE now + dt
       /\ AfterCall(result)
  /\ UNCHANGED <<_passes, _setup_done, _starting_time, fatal_line>>
  /\ UNCHANGED <<lines, n, worklist>>
  /\ UNCHANGED <<config, p1, p2, saved_cwd, fos, cwd, handles, fs>>
  /\ UNCHANGED <<visited, expected, handled>>
  /\ UNCHANGED <<metering, checking, helper>>

\* _run_analysis(): a pass with output is called with the file and the open
\* files; the finally clause closes them however the call ends.
InvokeProducing ==
  /\ pc = "opened"
  /\ \E result \in Verdicts \cup Raised : \E dt \in {0, 1} :
       /\ chain' = Append(chain, <<k, result>>)
       /\ now' = IF now + dt > MaxTime THEN MaxTime ELSE now + dt
       /\ fs' = IF result \in Verdicts THEN Written(fs, Range(fos)) ELSE fs
       /\ AfterCall(result)
  /\ handles' = CloseOutputs(handles, fos)
  /\ UNCHANGED <<_passes, _setup_done, _starting_time, fatal_line>>
  /\ UNCHANGED <<lines, n, worklist>>
  /\ UNCHANGED <<config, p1, p2, saved_cwd, fos, cwd>>
  /\ UNCHANGED <<visited, expected, handled>>
  /\ UNCHANGED <<metering, checking, helper>>

\* The last statement of _run_analysis(): os.chdir(cwd).
RestoreCwd == saved_cwd

\* _run_analysis(): the loop is over, by exhaustion or by break; the working
\* directory is changed back and _run_analysis returns.
LeaveAnalysis ==
  /\ \/ pc = "leave"
     \/ pc = "chain" /\ k > Len(_passes)
  /\ cwd' = RestoreCwd
  /\ pc' = "worklist"
  /\ UNCHANGED <<_passes, _setup_done, _starting_time, exc, fatal_line>>
  /\ UNCHANGED <<config, loop, analysis, handles, now, fs, history>>
  /\ UNCHANGED <<metering, checking, helper>>

Next ==
  \/ Setup
  \/ \E p \in PassPool : AddPass(p)
  \/ \E p \in PassPool : RejectPass(p)
  \/ StartTest
  \/ Finish
  \/ SkipLine
  \/ HandleLine
  \/ ReturnToLoop
  \/ Expand
  \/ DeadlineExceeded
  \/ MakedirsFails
  \/ StartAnalysis
  \/ OpenOutputs
  \/ InvokeChecking
  \/ InvokeProducing
  \/ LeaveAnalysis

Spec == Init /\ [][Next]_vars

(***************************************************************************)
(* RunPass: a command run as a child process, metered by a sampler thread  *)
(***************************************************************************)

MaxCalls == 2

\* The signal of p.kill(); psutil gives the exit code of a process that a
\* signal ended as the negated number of the signal.
SIGKILL == 9

ExitCodes == {0, 1}
Timeouts == {<<>>, <<1>>}
Descendants == {0, 1}

\* The CPU time a command may have used when it ends.
CpuUsages == {[utime |-> 1, stime |-> 0], [utime |-> 1, stime |-> 1]}

\* What memory_info() may return for one process; the sums a round gets
\* differ by the number of processes it reads.
MemInfos == {[rss |-> 1, vms |-> 2]}

\* The process of the invocation at hand, p.
Child == popen[Len(popen)]

\* The thread of the invocation at hand, thread.
Thread == threads[Len(threads)]

\* The process has ended, whether or not something has waited for it.
Exited(proc) == proc.state \in {"zombie", "reaped", "gone"}

\* The value of the line that starts with key in the lines written to data.
Field(rec, key) == rec[CHOOSE q \in DOMAIN rec : rec[q][1] = key][2]

\* The lines RunPass writes to data, without the last of them.
RecordWithoutExitCode(to, utime, stime, diff, max_rss, max_vms, code) ==
  << <<"Timeout", to>>,
     <<"User time", utime>>,
     <<"Sys time", stime>>,
     <<"Real time", diff>>,
     <<"Maximum resident set size", max_rss>>,
     <<"Maximum virtual memory size", max_vms>> >>

\* The lines RunPass writes to data.
Record(to, utime, stime, diff, max_rss, max_vms, code) ==
  << <<"Timeout", to>>,
     <<"User time", utime>>,
     <<"Sys time", stime>>,
     <<"Real time", diff>>,
     <<"Maximum resident set size", max_rss>>,
     <<"Maximum virtual memory size", max_vms>>,
     <<"Exit code", code>> >>

\* p.wait() returns once the process has ended. It collects a process nothing
\* else has collected: the result is its exit code, code or the negated
\* signal, and its CPU time is added to the counters of
\* resource.getrusage(resource.RUSAGE_CHILDREN). For a process something else
\* has collected, psutil returns None.
Collect(code, cpu) ==
  IF Child.state = "zombie"
    THEN /\ ret' = <<IF Child.signalled THEN -SIGKILL ELSE code>>
         /\ popen' = [popen EXCEPT ![Len(popen)].state = "reaped",
                                   ![Len(popen)].signalled = FALSE]
         /\ rusage' = [ru_utime |-> rusage.ru_utime + cpu.utime,
                       ru_stime |-> rusage.ru_stime + cpu.stime]
    ELSE /\ ret' = <<>>
         /\ UNCHANGED <<popen, rusage>>

\* The entries of seq, one for each thread started, whose thread still runs.
\* When __call__ has returned, nothing refers to its p and its thread any
\* more: the thread has ended and the process was collected.
Compact(seq) ==
  LET upto[m \in 0..Len(seq)] ==
        IF m = 0 THEN <<>>
        ELSE IF threads[m].alive THEN Append(upto[m - 1], seq[m])
        ELSE upto[m - 1]
  IN upto[Len(seq)]

\* The TestPipeline and the CheckPass of the process, which an invocation of
\* RunPass leaves alone.
pipeline == <<config, driver, loop, analysis, cwd, handles, fs, history, checking, helper>>

\* RunPass.__call__ up to psutil.Popen, which starts the command; data is the
\* file the caller opened for this invocation.
Call ==
  /\ at = "idle"
  /\ calls < MaxCalls
  /\ calls' = calls + 1
  /\ outcome' = "none"
  /\ data' = <<>>
  /\ timeout' = FALSE
  /\ before' = now
  /\ \E kids \in Descendants :
       popen' = Append(Compact(popen), [state |-> "running",
                                        signalled |-> FALSE, kids |-> kids])
  /\ threads' = Compact(threads)
  /\ ret' = <<>>
  /\ after' = 0
  /\ deadline' = 0
  /\ expired' = FALSE
  /\ at' = "spawned"
  /\ UNCHANGED <<self_timeout, rusage, _utime_sum, _stime_sum, now, pipeline>>

\* RunPass.__call__ when psutil.Popen raises: the error is raised again.
CallSpawnFails ==
  /\ at = "idle"
  /\ calls < MaxCalls
  /\ calls' = calls + 1
  /\ \E e \in {"OSError", "ValueError"} : outcome' = e
  /\ data' = <<>>
  /\ timeout' = FALSE
  /\ before' = now
  /\ threads' = Compact(threads)
  /\ popen' = Compact(popen)
  /\ ret' = <<>>
  /\ after' = 0
  /\ deadline' = 0
  /\ expired' = FALSE
  /\ UNCHANGED <<self_timeout, at, rusage, _utime_sum, _stime_sum>>
  /\ UNCHANGED <<now, pipeline>>

\* thread = MeasureMemoryUsage(p); thread.start(); p.wait(timeout) begins.
StartSampler ==
  /\ at = "spawned"
  /\ threads' = Append(threads, [alive |-> TRUE, stop |-> FALSE,
                                 rss |-> 0, vms |-> 0,
                                 max_rss |-> 0, max_vms |-> 0])
  /\ deadline' = IF self_timeout = <<>> THEN 0 ELSE now + self_timeout[1]
  /\ at' = "wait"
  /\ UNCHANGED <<self_timeout, timeout, ret, before, after, popen, rusage>>
  /\ UNCHANGED <<metrics, now, pipeline>>

\* r = p.wait(timeout=self.timeout) returns; after = time.perf_counter()
WaitReturns ==
  /\ at = "wait"
  /\ Exited(Child)
  /\ \E code \in ExitCodes, cpu \in CpuUsages : Collect(code, cpu)
  /\ after' = now
  /\ at' = "join"
  /\ UNCHANGED <<self_timeout, timeout, before, deadline, threads>>
  /\ UNCHANGED <<metrics, now, pipeline>>

\* p.wait(timeout=self.timeout) raises psutil.TimeoutExpired.
WaitExpires ==
  /\ at = "wait"
  /\ self_timeout # <<>>
  /\ Child.state = "running"
  /\ now >= deadline
  /\ expired' = TRUE
  /\ at' = "kill"
  /\ UNCHANGED <<self_timeout, timeout, ret, before, after, deadline>>
  /\ UNCHANGED <<children, _utime_sum, _stime_sum, data, calls, outcome>>
  /\ UNCHANGED <<now, pipeline>>

\* p.kill() sends the signal.
Kill ==
  /\ at = "kill"
  /\ Child.state \in {"running", "zombie"}
  /\ popen' = [popen EXCEPT ![Len(popen)].signalled = (Child.state = "running")]
  /\ at' = "wait2"
  /\ UNCHANGED <<self_timeout, timeout, ret, before, after, deadline>>
  /\ UNCHANGED <<threads, rusage, metrics, now, pipeline>>

\* p.kill() raises psutil.NoSuchProcess, for a process something else has
\* collected, or psutil.AccessDenied, for a process of another user;
\* __call__ raises it again.
KillFails ==
  /\ at = "kill"
  /\ outcome' = IF Child.state = "gone" THEN "NoSuchProcess" ELSE "AccessDenied"
  /\ at' = "idle"
  /\ UNCHANGED <<self_timeout, timeout, ret, before, after, deadline>>
  /\ UNCHANGED <<children, _utime_sum, _stime_sum, data, calls, expired>>
  /\ UNCHANGED <<now, pipeline>>

\* r = p.wait() returns; after = time.perf_counter(); the flag stays as it is.
WaitAfterKillUnflagged ==
  /\ at = "wait2"
  /\ Exited(Child)
  /\ \E code \in ExitCodes, cpu \in CpuUsages : Collect(code, cpu)
  /\ timeout' = timeout
  /\ after' = now
  /\ at' = "join"
  /\ UNCHANGED <<self_timeout, before, deadline, threads>>
  /\ UNCHANGED <<metrics, now, pipeline>>

\* r = p.wait() returns; timeout = True; after = time.perf_counter()
WaitAfterKill ==
  /\ at = "wait2"
  /\ Exited(Child)
  /\ \E code \in ExitCodes, cpu \in CpuUsages : Collect(code, cpu)
  /\ timeout' = TRUE
  /\ after' = now
  /\ at' = "join"
  /\ UNCHANGED <<self_timeout, before, deadline, threads>>
  /\ UNCHANGED <<metrics, now, pipeline>>

\* thread.join() sets the stop event and begins to wait for the thread.
Join ==
  /\ at = "join"
  /\ threads' = [threads EXCEPT ![Len(threads)].stop = TRUE]
  /\ at' = "joining"
  /\ UNCHANGED <<self_timeout, timeout, ret, before, after, deadline>>
  /\ UNCHANGED <<popen, rusage, metrics, now, pipeline>>

\* Thread.join(timeout) with a timeout that is over at once.
JoinedAtOnce == TRUE

\* Thread.join(None) returns: the thread has ended.
Joined == ~Thread.alive

\* thread.join() returns; the rest of RunPass.__call__: the assertions, the
\* counters, the lines written to data, return True.
WriteRecord ==
  /\ at = "joining"
  /\ Joined
  /\ LET diff == after - before
         res == rusage
         utime == res.ru_utime - 0
         stime == res.ru_stime - 0
     IN IF diff < 0 \/ utime < 0 \/ stime < 0
          THEN /\ outcome' = "AssertionError"
               /\ UNCHANGED <<_utime_sum, _stime_sum, data>>
          ELSE /\ _utime_sum' = res.ru_utime
               /\ _stime_sum' = res.ru_stime
               /\ data' = Record(timeout, utime, stime, diff,
                                 Thread.max_rss, Thread.max_vms, ret)
               /\ outcome' = "True"
  /\ at' = "idle"
  /\ UNCHANGED <<self_timeout, timeout, ret, before, after, deadline>>
  /\ UNCHANGED <<children, calls, expired, now, pipeline>>

\* What one round of MeasureMemoryUsage.run gets from memory_info() before
\* the round is over or psutil.NoSuchProcess ends it: nothing for a process
\* that has ended, else the sizes of the process and of the descendants read.
Observations(proc) ==
  IF proc.state # "running" THEN {<<>>}
  ELSE {<<own>> : own \in MemInfos}
       \cup (IF proc.kids = 0 THEN {}
             ELSE {<<own, kid>> : own \in MemInfos, kid \in MemInfos})

RECURSIVE SumOf(_, _)
\* The sum of the field of the sizes read.
SumOf(seen, field) ==
  IF seen = <<>> THEN 0
  ELSE seen[1][field] + SumOf(Tail(seen), field)

\* The body of the loop of MeasureMemoryUsage.run: rss and vms are the sums
\* of the sizes read in this round, m is the last size read.
Sampled(th, seen) ==
  LET rss == SumOf(seen, "rss")
      vms == SumOf(seen, "vms")
      m == seen[Len(seen)]
  IN [th EXCEPT !.rss = rss,
                !.vms = vms,
                !.max_rss = IF rss > th.max_rss THEN m.rss ELSE th.max_rss,
                !.max_vms = IF vms > th.max_vms THEN m.vms ELSE th.max_vms]

\* One round of MeasureMemoryUsage.run of the j-th thread, which samples the
\* j-th process.
Sample(j) ==
  /\ threads[j].alive
  /\ ~threads[j].stop
  /\ \E seen \in Observations(popen[j]) :
       threads' = [threads EXCEPT ![j] = Sampled(@, seen)]
  /\ UNCHANGED <<invocation, popen, rusage, metrics, now, pipeline>>

\* MeasureMemoryUsage.run finds the stop event set and returns.
SamplerExits(j) ==
  /\ threads[j].alive
  /\ threads[j].stop
  /\ threads' = [threads EXCEPT ![j].alive = FALSE]
  /\ UNCHANGED <<invocation, popen, rusage, metrics, now, pipeline>>

\* The c-th command ends: by itself, or by the signal it was sent.
ChildExits(c) ==
  /\ popen[c].state = "running"
  /\ popen' = [popen EXCEPT ![c].state = "zombie"]
  /\ UNCHANGED <<invocation, threads, rusage, metrics, now, pipeline>>

\* Something other than p.wait() collects the c-th command after it ended.
ReapedElsewhere(c) ==
  /\ popen[c].state = "zombie"
  /\ popen' = [popen EXCEPT ![c].state = "gone", ![c].signalled = FALSE]
  /\ UNCHANGED <<invocation, threads, rusage, metrics, now, pipeline>>

\* A process that the c-th command created ends.
DescendantExits(c) ==
  /\ popen[c].kids > 0
  /\ popen' = [popen EXCEPT ![c].kids = @ - 1]
  /\ UNCHANGED <<invocation, threads, rusage, metrics, now, pipeline>>

\* Time passes while RunPass.__call__ waits for the command.
Tick ==
  /\ at \in {"wait", "wait2"}
  /\ now < MaxTime
  /\ now' = now + 1
  /\ UNCHANGED <<metering, pipeline>>

\* RunPass(cmd, timeout=t) in a process whose TestPipeline is not run.
InitRun ==
  /\ NewTestPipeline(<<LineA>>, <<"A">>, <<"O">>, 1, 1, 0, UserFiles)
  /\ \E t \in Timeouts : NewRunPass(t)
  /\ NewCheckPass(DefaultCheckPass)
  /\ NoHelper

NextRun ==
  \/ Call
  \/ CallSpawnFails
  \/ StartSampler
  \/ WaitReturns
  \/ WaitExpires
  \/ Kill
  \/ KillFails
  \/ WaitAfterKill
  \/ Join
  \/ WriteRecord
  \/ Tick
  \/ \E j \in DOMAIN threads : Sample(j)
  \/ \E j \in DOMAIN threads : SamplerExits(j)
  \/ \E c \in DOMAIN popen : ChildExits(c)
  \/ \E c \in DOMAIN popen : ReapedElsewhere(c)
  \/ \E c \in DOMAIN popen : DescendantExits(c)

SpecRun == InitRun /\ [][NextRun]_vars

\* The steps of the j-th MeasureMemoryUsage thread, once it has been started.
SamplerStep(j) == j \in DOMAIN threads /\ (Sample(j) \/ SamplerExits(j))

\* RunPass and its threads under a scheduler that lets every started thread
\* run: a sampler that can take a round of its loop, or leave it, does so in
\* the end, and the calling thread gets to thread.join() when it is there.
SpecRunFair ==
  /\ InitRun
  /\ [][NextRun]_vars
  /\ WF_vars(Join)
  /\ \A j \in 1..MaxCalls : WF_vars(SamplerStep(j)) /\ WF_vars(j \in DOMAIN threads /\ SamplerExits(j))

(***************************************************************************)
(* CheckPass: a command run to completion, judged by its code and output   *)
(***************************************************************************)

\* re.search(regex, text) for a regex without special characters: whether
\* the regex occurs in the text.
search(regex, text) == Find(text, regex) # 0

\* What subprocess.run(cmd, capture_output=True, text=True, timeout=...) may
\* do for a CheckPass: TimeoutExpired needs a timeout.
Runs(self) ==
  CompletedRuns \cup {FailedSpawn} \cup
    (IF self.timeout # <<>> THEN {TimedOutRun} ELSE {})

\* CheckPass.__call__ with a slip: the exceptions of subprocess.run are
\* swallowed and the pass fails.
CheckPassCallSwallowing(self, run) ==
  IF run.kind \in {"timeout", "nospawn"} THEN "False"
  ELSE IF run.returncode \notin self.retcode THEN "False"
  ELSE IF self.regex_stdout # <<>> /\ ~search(self.regex_stdout, run.stdout) THEN "False"
  ELSE IF self.regex_stderr # <<>> /\ ~search(self.regex_stderr, run.stderr) THEN "False"
  ELSE IF run.stdout \notin self.check_stdout THEN "False"
  ELSE IF run.stderr \notin self.check_stderr THEN "False"
  ELSE "True"

\* CheckPass.__call__ with a slip: regex_stderr is not looked at.
CheckPassCallWithoutStderr(self, run) ==
  IF run.kind = "timeout" THEN "TimeoutExpired"
  ELSE IF run.kind = "nospawn" THEN "FileNotFoundError"
  ELSE IF run.returncode \notin self.retcode THEN "False"
  ELSE IF self.regex_stdout # <<>> /\ ~search(self.regex_stdout, run.stdout) THEN "False"
  ELSE IF run.stdout \notin self.check_stdout THEN "False"
  ELSE IF run.stderr \notin self.check_stderr THEN "False"
  ELSE "True"

\* CheckPass.__call__(f): what is raised by subprocess.run is raised again or
\* passes through; else the checks are made in order, each returning False
\* when it fails.
CheckPassCall(self, run) ==
  IF run.kind = "timeout" THEN "TimeoutExpired"
  ELSE IF run.kind = "nospawn" THEN "FileNotFoundError"
  ELSE IF run.returncode \notin self.retcode THEN "False"
  ELSE IF self.regex_stdout # <<>> /\ ~search(self.regex_stdout, run.stdout) THEN "False"
  ELSE IF self.regex_stderr # <<>> /\ ~search(self.regex_stderr, run.stderr) THEN "False"
  ELSE IF run.stdout \notin self.check_stdout THEN "False"
  ELSE IF run.stderr \notin self.check_stderr THEN "False"
  ELSE "True"

\* _run_analysis(): the CheckPass is called with the file. A command that
\* is cut off has run for the time of the timeout.
InvokeCheckPass ==
  /\ pc = "chain"
  /\ k <= Len(_passes)
  /\ _passes[k].name = "CheckPass"
  /\ \E run \in Runs(check_pass) : \E dt \in {0, 1} :
       /\ run.kind = "timeout" => dt >= check_pass.timeout[1]
       /\ cp' = run
       /\ chain' = Append(chain, <<k, CheckPassCall(check_pass, run)>>)
       /\ now' = IF now + dt > MaxTime THEN MaxTime ELSE now + dt
       /\ AfterCall(CheckPassCall(check_pass, run))
  /\ UNCHANGED <<_passes, _setup_done, _starting_time, fatal_line>>
  /\ UNCHANGED <<lines, n, worklist>>
  /\ UNCHANGED <<config, p1, p2, saved_cwd, fos, cwd, handles, fs>>
  /\ UNCHANGED <<visited, expected, handled>>
  /\ UNCHANGED <<metering, check_pass, helper>>

\* The passes of a driver script with a CheckPass.
CheckPool == {TheCheckPass, OpeningPass, IoOpeningPass}

\* A driver script with one CheckPass and a time limit, over an input file
\* with an entry for a file, a comment and an entry for a directory of two
\* files. No pass declares output, and the output root can be made.
InitCheck ==
  /\ NewTestPipeline(<<LineA, LineComment, LineD>>, <<"A">>, <<"O">>, 1, 5, 1, UserFiles)
  /\ NewRunPass(<<>>)
  /\ \E self \in CheckPasses : NewCheckPass(self)
  /\ NoHelper

NextCheck ==
  \/ Setup
  \/ \E p \in CheckPool : AddPass(p)
  \/ \E p \in CheckPool : RejectPass(p)
  \/ StartTest
  \/ Finish
  \/ SkipLine
  \/ HandleLine
  \/ ReturnToLoop
  \/ Expand
  \/ DeadlineExceeded
  \/ StartAnalysis
  \/ InvokeChecking
  \/ InvokeCheckPass
  \/ LeaveAnalysis

SpecCheck == InitCheck /\ [][NextCheck]_vars

(***************************************************************************)
(* _copy_and_merge called on its own, over small trees                     *)
(***************************************************************************)

\* How often the helper is called on the same arguments.
MaxApplications == 2

\* The function with no argument: a tree that has nothing at a place.
Nothing == [q \in {} |-> "dir"]

\* The trees at path r whose files hold the content c: nothing, a file, or a
\* directory with f (nothing, a file or a directory) and d (nothing, a file,
\* a directory, or a directory with a file f).
TreesAt(r, c) ==
  LET fentries == {Nothing, Append(r, "f") :> c, Append(r, "f") :> "dir"}
      dentries == {Nothing, Append(r, "d") :> c, Append(r, "d") :> "dir",
                   (Append(r, "d") :> "dir") @@ (r \o <<"d", "f">> :> c)}
  IN {Nothing, r :> c} \cup {(r :> "dir") @@ e1 @@ e2 : e1 \in fentries, e2 \in dentries}

\* The arguments of _copy_and_merge: a source at /s that exists, and a target
\* at /t, apart from the source, or at /s/t, inside it and not there yet.
MergeArgs ==
  LET pairs == {<<st, tt>> \in TreesAt(<<"s">>, "new") \X TreesAt(<<"t">>, "old") :
                  st # Nothing}
      apart == {[fs |-> (<<>> :> "dir") @@ pr[1] @@ pr[2], src |-> <<"s">>, tgt |-> <<"t">>] :
                  pr \in pairs}
      inside == {[fs |-> (<<>> :> "dir") @@ st, src |-> <<"s">>, tgt |-> <<"s", "t">>] :
                   st \in {x \in TreesAt(<<"s">>, "new") : isdir(x, <<"s">>)}}
  IN apart \cup inside

\* The file system a call of the helper finds: the one of the arguments, or
\* the one the call before it left.
Found == IF returned = <<>> THEN arg.fs ELSE returned[Len(returned)].fs

\* _copy_and_merge(src, tgt) is called, once more on the same arguments.
CopyAndMerge ==
  /\ Len(returned) < MaxApplications
  /\ returned' = Append(returned, _copy_and_merge(Found, arg.src, arg.tgt))
  /\ UNCHANGED <<arg, config, driver, loop, analysis, process, history, metering, checking>>

InitMerge ==
  /\ NewTestPipeline(<<LineA>>, <<"A">>, <<"O">>, 1, 1, 0, UserFiles)
  /\ NewRunPass(<<>>)
  /\ NewCheckPass(DefaultCheckPass)
  /\ arg \in MergeArgs
  /\ returned = <<>>

NextMerge == CopyAndMerge

SpecMerge == InitMerge /\ [][NextMerge]_vars

(***************************************************************************)
(* _is_path_entry and _is_http_url_entry called on their own               *)
(***************************************************************************)

\* The length of the strings, and of what follows the start of a URL.
MaxLen == 4

\* The strings over an alphabet up to a length.
Strings(alphabet, len) == UNION {[1..m -> alphabet] : m \in 0..len}

\* The ways a line may start that looks like a URL: the scheme http with its
\* separators whole or in part, and other schemes.
UrlStarts ==
  { HttpPrefix,
    <<"h", "t", "t", "p", ":", "/">>,
    <<"h", "t", "t", "p", ":">>,
    <<"h", "t", "t", "p", "s", ":", "/", "/">>,
    <<"f", "t", "p", ":", "/", "/">> }

\* The lines the two helpers are called on. None starts with whitespace:
\* test() strips its lines, and urlparse drops leading whitespace.
EntryStrings ==
  LET paths == Strings({"/", " ", "~", "^", "a"}, MaxLen)
      urls == {u \o t : u \in UrlStarts, t \in Strings({"/", " ", "h", "?"}, MaxLen - 1)}
  IN {s \in paths \cup urls : s = <<>> \/ s[1] \notin Whitespace}

\* self._is_path_entry(s) is called.
IsPathEntry ==
  /\ returned = <<>>
  /\ returned' = <<[helper |-> "_is_path_entry", value |-> _is_path_entry(arg)]>>
  /\ UNCHANGED <<arg, config, driver, loop, analysis, process, history, metering, checking>>

\* self._is_http_url_entry(s) is called.
IsHttpUrlEntry ==
  /\ returned = <<>>
  /\ returned' = <<[helper |-> "_is_http_url_entry", value |-> _is_http_url_entry(arg)]>>
  /\ UNCHANGED <<arg, config, driver, loop, analysis, process, history, metering, checking>>

InitEntry ==
  /\ NewTestPipeline(<<LineA>>, <<"A">>, <<"O">>, 1, 1, 0, UserFiles)
  /\ NewRunPass(<<>>)
  /\ NewCheckPass(DefaultCheckPass)
  /\ arg \in EntryStrings
  /\ returned = <<>>

NextEntry ==
  \/ IsPathEntry
  \/ IsHttpUrlEntry

SpecEntry == InitEntry /\ [][NextEntry]_vars

(***************************************************************************)
(* DataPipeline.gather_data over one leaf directory of the output root     *)
(***************************************************************************)

\* The passes of a data driver script: a pass with a column (CopyPass,
\* ExtractPass, ProcessPass) or without one (FalsePass, CheckPass), each
\* with the name of the file it reads. <<>> stands for no column attribute.
DataPasses == [column : {<<>>, <<"c">>}, input_file : {"a", "b"}]

\* What a pass may return: the flag b and the extracted string r, '' or 'v'.
PassResults == [b : BOOLEAN, r : {<<>>, <<"v">>}]

\* The arguments of gather_data: the passes added, the files of the leaf
\* directory, and what each pass returns for the content of its file.
GatherArgs ==
  UNION {[passes : [1..m -> DataPasses], files : SUBSET {"a", "b"},
          results : [1..m -> PassResults]] : m \in 1..MaxPasses}

RECURSIVE PassLoopWithoutPlaceholder(_, _, _, _, _)
\* The loop over the passes with a slip: a pass that is skipped after a false
\* flag adds nothing to the record.
PassLoopWithoutPlaceholder(a, j, record, complete_record, invoked) ==
  IF j > Len(a.passes) THEN [record |-> record, invoked |-> invoked]
  ELSE LET gathers_data == a.passes[j].column # <<>>
           res == a.results[j]
       IN IF complete_record
            THEN PassLoopWithoutPlaceholder(a, j + 1, record, TRUE, invoked)
          ELSE IF a.passes[j].input_file \in a.files
            THEN PassLoopWithoutPlaceholder(a, j + 1,
                   IF gathers_data
                     THEN Append(record, IF res.r = <<>> THEN <<"-">> ELSE res.r)
                     ELSE record,
                   ~res.b, Append(invoked, j))
          ELSE PassLoopWithoutPlaceholder(a, j + 1,
                 IF gathers_data THEN Append(record, <<"-">>) ELSE record,
                 FALSE, invoked)

RECURSIVE PassLoop(_, _, _, _, _)
\* gather_data(): the loop over the passes for one leaf directory, from the
\* pass at j on, with the record and the passes called so far.
PassLoop(a, j, record, complete_record, invoked) ==
  IF j > Len(a.passes) THEN [record |-> record, invoked |-> invoked]
  ELSE LET gathers_data == a.passes[j].column # <<>>
           res == a.results[j]
       IN IF complete_record
            THEN PassLoop(a, j + 1,
                   IF gathers_data THEN Append(record, <<"-">>) ELSE record,
                   TRUE, invoked)
          ELSE IF a.passes[j].input_file \in a.files
            THEN PassLoop(a, j + 1,
                   IF gathers_data
                     THEN Append(record, IF res.r = <<>> THEN <<"-">> ELSE res.r)
                     ELSE record,
                   ~res.b, Append(invoked, j))
          ELSE PassLoop(a, j + 1,
                 IF gathers_data THEN Append(record, <<"-">>) ELSE record,
                 FALSE, invoked)

RECURSIVE Heading(_, _)
\* gather_data(): the heading, 'test' and the columns of the passes from j on.
Heading(passes, j) ==
  IF j > Len(passes) THEN <<>>
  ELSE IF passes[j].column # <<>> THEN <<passes[j].column>> \o Heading(passes, j + 1)
  ELSE Heading(passes, j + 1)

\* gather_data() is called: the record of the leaf directory, the passes
\* called for it, and the heading written to the output file.
GatherData ==
  /\ returned = <<>>
  /\ LET looped == PassLoop(arg, 1, << <<".">> >>, FALSE, <<>>)
     IN returned' = <<[record |-> looped.record, invoked |-> looped.invoked,
                       heading |-> << <<"test">> >> \o Heading(arg.passes, 1)]>>
  /\ UNCHANGED <<arg, config, driver, loop, analysis, process, history, metering, checking>>

InitGather ==
  /\ NewTestPipeline(<<LineA>>, <<"A">>, <<"O">>, 1, 1, 0, UserFiles)
  /\ NewRunPass(<<>>)
  /\ NewCheckPass(DefaultCheckPass)
  /\ arg \in GatherArgs
  /\ returned = <<>>

NextGather == GatherData

SpecGather == InitGather /\ [][NextGather]_vars

(***************************************************************************)
(* A RunPass in the chain of a driver script                               *)
(***************************************************************************)

\* _run_analysis(): r = p(f, self.unwrap_list(fos)) for a RunPass, up to
\* psutil.Popen.
CallInChain ==
  /\ pc = "opened"
  /\ outcome = "none"
  /\ Call

\* The same call when psutil.Popen raises.
CallSpawnFailsInChain ==
  /\ pc = "opened"
  /\ outcome = "none"
  /\ CallSpawnFails

\* _run_analysis() with a slip: after the call of the RunPass the loop goes
\* on with the next pass whatever the call returned or raised.
ReturnToChainContinuing ==
  /\ pc = "opened"
  /\ at = "idle"
  /\ outcome # "none"
  /\ chain' = Append(chain, <<k, outcome>>)
  /\ fs' = IF outcome = "True" THEN Written(fs, Range(fos)) ELSE fs
  /\ k' = k + 1
  /\ pc' = "chain"
  /\ handles' = CloseOutputs(handles, fos)
  /\ outcome' = "none"
  /\ UNCHANGED <<_passes, _setup_done, _starting_time, exc, fatal_line>>
  /\ UNCHANGED <<lines, i, n, worklist>>
  /\ UNCHANGED <<config, p1, p2, saved_cwd, fos, cwd, now>>
  /\ UNCHANGED <<visited, expected, abandoned, handled>>
  /\ UNCHANGED <<invocation, children, _utime_sum, _stime_sum, data, calls, expired>>
  /\ UNCHANGED <<checking, helper>>

\* _run_analysis(): the call of the RunPass is over, with True or with the
\* exception that left it; the finally clause closes the output files and
\* the loop goes on as the result says. The result is handed over: outcome
\* is "none" again.
ReturnToChain ==
  /\ pc = "opened"
  /\ at = "idle"
  /\ outcome # "none"
  /\ chain' = Append(chain, <<k, outcome>>)
  /\ fs' = IF outcome = "True" THEN Written(fs, Range(fos)) ELSE fs
  /\ AfterCall(outcome)
  /\ handles' = CloseOutputs(handles, fos)
  /\ outcome' = "none"
  /\ UNCHANGED <<_passes, _setup_done, _starting_time, fatal_line>>
  /\ UNCHANGED <<lines, n, worklist>>
  /\ UNCHANGED <<config, p1, p2, saved_cwd, fos, cwd, now>>
  /\ UNCHANGED <<visited, expected, handled>>
  /\ UNCHANGED <<invocation, children, _utime_sum, _stime_sum, data, calls, expired>>
  /\ UNCHANGED <<checking, helper>>

\* The passes of a driver script with RunPass objects only.
ChainPool == {ProducingPass}

\* A driver script with a time limit whose RunPass has a timeout, over an
\* input file with an entry for a directory of two files and an entry for a
\* file.
InitChain ==
  /\ NewTestPipeline(<<LineD, LineA>>, <<"A">>, <<"O">>, 1, 2, 1, UserFiles)
  /\ NewRunPass(<<1>>)
  /\ NewCheckPass(DefaultCheckPass)
  /\ NoHelper

NextChain ==
  \/ Setup
  \/ \E p \in ChainPool : AddPass(p)
  \/ StartTest
  \/ Finish
  \/ HandleLine
  \/ ReturnToLoop
  \/ Expand
  \/ DeadlineExceeded
  \/ StartAnalysis
  \/ OpenOutputs
  \/ CallInChain
  \/ CallSpawnFailsInChain
  \/ StartSampler
  \/ WaitReturns
  \/ WaitExpires
  \/ Kill
  \/ KillFails
  \/ WaitAfterKill
  \/ Join
  \/ WriteRecord
  \/ Tick
  \/ \E j \in DOMAIN threads : Sample(j)
  \/ \E j \in DOMAIN threads : SamplerExits(j)
  \/ \E c \in DOMAIN popen : ChildExits(c)
  \/ \E c \in DOMAIN popen : ReapedElsewhere(c)
  \/ \E c \in DOMAIN popen : DescendantExits(c)
  \/ ReturnToChain
  \/ LeaveAnalysis

SpecChain == InitChain /\ [][NextChain]_vars

(***************************************************************************)
(* RunPass.__call__: the command that is started                           *)
(***************************************************************************)

\* The add argument of RunPass: None, a suffix, or a list of an option and a
\* suffix.
Adds ==
  { [kind |-> "None", option |-> <<>>, suffix |-> <<>>],
    [kind |-> "str", option |-> <<>>, suffix |-> <<".", "x">>],
    [kind |-> "list", option |-> <<"-", "o">>, suffix |-> <<".", "y">>] }

\* RunPass(cmd, ignore_file=..., add=...): the attributes of self.
RunPassArgs ==
  { [cmd |-> c, ignore_file |-> g, add |-> a] :
      c \in { << <<"c">> >>, << <<"c">>, <<"-", "v">> >> }, g \in BOOLEAN, a \in Adds }

\* The files a RunPass is called with.
CalledWith == { <<"f">>, <<"g">>, <<"d", "/", "f">> }

\* RunPass.__call__(f, output_files): cmd as it is given to psutil.Popen.
BuiltCmd(self, f) ==
  LET copied == self.cmd
      with_list == IF self.add.kind = "list"
                     THEN copied \o <<self.add.option, f \o self.add.suffix>>
                     ELSE copied
      with_file == IF ~self.ignore_file THEN Append(with_list, f) ELSE with_list
  IN IF self.add.kind = "str" THEN Append(with_file, f \o self.add.suffix) ELSE with_file

\* One call of the RunPass: cmd is built from a copy of self.cmd, so self is
\* as it was.
BuildCmd ==
  /\ Len(returned) < MaxApplications
  /\ \E f \in CalledWith :
       returned' = Append(returned, [f |-> f, cmd |-> BuiltCmd(arg, f)])
  /\ arg' = arg
  /\ UNCHANGED <<config, driver, loop, analysis, process, history, metering, checking>>

InitCmd ==
  /\ NewTestPipeline(<<LineA>>, <<"A">>, <<"O">>, 1, 1, 0, UserFiles)
  /\ NewRunPass(<<>>)
  /\ NewCheckPass(DefaultCheckPass)
  /\ arg \in RunPassArgs
  /\ returned = <<>>

NextCmd == BuildCmd

SpecCmd == InitCmd /\ [][NextCmd]_vars

(***************************************************************************)
(* Roots the process may not write to                                      *)
(***************************************************************************)

\* The files of the caller with the directory root, in which the process may
\* not make entries.
WithReadOnly(root) == (root :> ReadOnlyDir) @@ makedirs(UserFiles, root).fs

\* The file systems a run may start in: the two roots are not there yet, or
\* one of them is and is not writable.
RootFileSystems ==
  {UserFiles, WithReadOnly(abspath(<<"A">>, StartDir)), WithReadOnly(abspath(<<"O">>, StartDir))}

\* A driver script without a time limit over an input file with an entry for
\* a file and an entry for a directory of two files.
InitRoots ==
  /\ \E files \in RootFileSystems :
       NewTestPipeline(<<LineA, LineD>>, <<"A">>, <<"O">>, 1, 5, 0, files)
  /\ NewRunPass(<<>>)
  /\ NewCheckPass(DefaultCheckPass)
  /\ NoHelper

NextRoots ==
  \/ Setup
  \/ AddPass(CheckingPass)
  \/ StartTest
  \/ Finish
  \/ HandleLine
  \/ ReturnToLoop
  \/ Expand
  \/ MakedirsFails
  \/ StartAnalysis
  \/ InvokeChecking
  \/ LeaveAnalysis

SpecRoots == InitRoots /\ [][NextRoots]_vars

(***************************************************************************)
(* Output files that an earlier run has left                               *)
(***************************************************************************)

\* A second RunPass, with the prefix p.
PrefixedPass ==
  [name |-> "p.run", has_output |-> TRUE,
   output |-> << <<"p">> \o OutStdout, <<"p">> \o OutStderr, <<"p">> \o OutData >>,
   calls |-> {}]

\* The output directory of /w/a below the output root O.
OutputDirOfA == abspath(<<"O">>, StartDir) \o <<W, NameA>>

\* The output files the two RunPass objects declare for /w/a.
ArtifactsOfA ==
  {Append(OutputDirOfA, ProducingPass.output[j]) : j \in 1..3} \cup
  {Append(OutputDirOfA, PrefixedPass.output[j]) : j \in 1..3}

\* An earlier run has left every output file of /w/a, with the content "old".
LeftArtifacts ==
  LET made == makedirs(UserFiles, OutputDirOfA).fs
  IN [q \in DOMAIN made \cup ArtifactsOfA |-> IF q \in ArtifactsOfA THEN "old" ELSE made[q]]

\* The same, with a directory where the stderr file of the first RunPass goes.
LeftArtifactsAndDir ==
  [LeftArtifacts EXCEPT ![Append(OutputDirOfA, OutStderr)] = "dir"]

\* A driver script over an input file with the entry for /w/a.
InitArtifacts ==
  /\ \E files \in {LeftArtifacts, LeftArtifactsAndDir} :
       NewTestPipeline(<<LineA>>, <<"A">>, <<"O">>, 1, 5, 0, files)
  /\ NewRunPass(<<>>)
  /\ NewCheckPass(DefaultCheckPass)
  /\ NoHelper

NextArtifacts ==
  \/ Setup
  \/ \E p \in {CheckingPass, ProducingPass, PrefixedPass} : AddPass(p)
  \/ StartTest
  \/ Finish
  \/ HandleLine
  \/ ReturnToLoop
  \/ StartAnalysis
  \/ OpenOutputs
  \/ InvokeChecking
  \/ InvokeProducing
  \/ LeaveAnalysis

SpecArtifacts == InitArtifacts /\ [][NextArtifacts]_vars

(***************************************************************************)
(* The range of lines a driver script selects                              *)
(***************************************************************************)

\* A comment behind blanks, as it is in the input file.
LineIndentedComment == <<" ", "#", "a">>

\* Input files whose lines are all valid.
ValidInputFiles ==
  { <<LineA, LineComment, LineD>>,
    <<LineMissing, LineBlank, LineA>>,
    <<LineIndentedComment, LineA, LineBlank, LineHome>> }

\* A driver script without passes: TestPipeline(start_line=..., num_lines=...).
InitRange ==
  /\ \E input_file \in ValidInputFiles, start_line \in 1..5, num_lines \in 0..3 :
       NewTestPipeline(input_file, <<"A">>, <<"O">>, start_line, num_lines, 0, UserFiles)
  /\ NewRunPass(<<>>)
  /\ NewCheckPass(DefaultCheckPass)
  /\ NoHelper

NextRange ==
  \/ Setup
  \/ StartTest
  \/ Finish
  \/ SkipLine
  \/ HandleLine
  \/ ReturnToLoop
  \/ Expand
  \/ StartAnalysis
  \/ LeaveAnalysis

SpecRange == InitRange /\ [][NextRange]_vars

(***************************************************************************)
(* Ctrl-C while the driver script runs                                     *)
(***************************************************************************)

\* KeyboardInterrupt is raised in _handle_line before _handle_local_path is
\* entered: the entry was counted, and its copy is there or is not.
InterruptHandleLine ==
  /\ pc = "loop"
  /\ i <= Len(lines)
  /\ n < _num_lines
  /\ lines[i] # <<>>
  /\ ~StartsWith(lines[i], <<"#">>)
  /\ n' = n + 1
  /\ handled' = Append(handled, i)
  /\ fs' \in {fs, _handle_line(fs, lines[i], cwd).fs}
  /\ RaiseInTest("KeyboardInterrupt")
  /\ UNCHANGED <<_passes, _setup_done, _starting_time, fatal_line, lines>>
  /\ UNCHANGED <<worklist, expected>>
  /\ UNCHANGED <<config, analysis, cwd, handles, now, chain, visited>>
  /\ UNCHANGED <<metering, checking, helper>>

\* KeyboardInterrupt is raised in the loop of _handle_local_path, outside
\* _run_analysis.
InterruptLocalPath ==
  /\ pc = "worklist"
  /\ RaiseInTest("KeyboardInterrupt")
  /\ UNCHANGED <<_passes, _setup_done, _starting_time, fatal_line>>
  /\ UNCHANGED <<lines, n, worklist>>
  /\ UNCHANGED <<config, analysis, process, chain, visited, expected, handled>>
  /\ UNCHANGED <<metering, checking, helper>>

\* A driver script with a time limit, over an input file with an entry for a
\* file, a comment and an entry for a directory of two files, started where
\* the two roots hold nothing.
InitInterrupt ==
  /\ NewTestPipeline(<<LineA, LineComment, LineD>>, <<"A">>, <<"O">>, 1, 5, 1, UserFiles)
  /\ NewRunPass(<<>>)
  /\ NewCheckPass(DefaultCheckPass)
  /\ NoHelper

NextInterrupt ==
  \/ Setup
  \/ \E p \in PassPool : AddPass(p)
  \/ \E p \in PassPool : RejectPass(p)
  \/ StartTest
  \/ Finish
  \/ SkipLine
  \/ HandleLine
  \/ InterruptHandleLine
  \/ ReturnToLoop
  \/ Expand
  \/ InterruptLocalPath
  \/ DeadlineExceeded
  \/ StartAnalysis
  \/ OpenOutputs
  \/ InvokeChecking
  \/ InvokeProducing
  \/ LeaveAnalysis

SpecInterrupt == InitInterrupt /\ [][NextInterrupt]_vars

(***************************************************************************)
(* Properties of the pass chain and of the work driver                     *)
(***************************************************************************)

\* The last element of a non-empty sequence.
Last(q) == q[Len(q)]

\* _run_analysis is running for the file p1.
InAnalysis == pc \in {"chain", "opened", "leave"}

\* C1: for every file, the passes are invoked in order from the first one, and
\* once a pass has returned False no further pass is invoked for that file: a
\* False verdict is the last entry of the file's chain and the loop has been left.
C1_NoPassAfterFalse ==
  /\ \A j \in 1..Len(chain) :
       /\ chain[j][1] = j
       /\ chain[j][2] = "False" => j = Len(chain)
  /\ pc \in {"chain", "opened"} => k = Len(chain) + 1
  /\ (chain # <<>> /\ Last(chain)[2] = "False") => pc \notin {"chain", "opened"}

\* C1 witness: the first of two passes returned False and the loop was left.
C1_Witness ==
  /\ pc = "leave"
  /\ Len(_passes) = 2
  /\ chain = << <<1, "False">> >>

\* What a pass raises that is no cancellation.
Faults == {"Exception", "TimeoutException"}

\* C2: a fault a pass raises, other than KeyboardInterrupt, is caught in
\* _run_analysis: the step leaves the loop of the chain and changes neither the
\* worklist nor the position of test() nor the lines given up, no later pass
\* is invoked for the file, and when test() returns every file found for a
\* line that was not given up has had its chain started.
C2_FaultEndsChainOnly ==
  /\ [][(chain' # chain /\ chain' # <<>> /\ Last(chain')[2] \in Faults)
          => /\ pc' = "leave"
             /\ UNCHANGED <<worklist, lines, i, n, exc, abandoned, visited>>]_vars
  /\ []((chain # <<>> /\ Last(chain)[2] \in Faults) => pc \notin {"chain", "opened"})
  /\ [](pc = "done" => \A e \in expected : e[1] \notin abandoned => e \in visited)

\* C2 witness: the first of two passes raised, the loop was left, and files of
\* the entry are still on the worklist.
C2_Witness ==
  /\ pc = "leave"
  /\ Len(_passes) = 2
  /\ chain = << <<1, "Exception">> >>
  /\ worklist # <<>>

\* The deadline is found exceeded at the check made before the file on top of
\* the worklist.
DeadlineFound ==
  /\ pc = "worklist"
  /\ worklist # <<>>
  /\ ~isdir(fs, Top[1])
  /\ timed_out

\* C3: when the deadline is found exceeded before a file, TimeoutException
\* ends the script: the chain of the file is not started, and no step is taken
\* after the exception has left test().
C3_DeadlineAbortsRun ==
  /\ [][DeadlineFound
          => /\ pc' = "exited"
             /\ exc' = "TimeoutException"
             /\ UNCHANGED <<visited, chain, fs, handles, cwd>>]_vars
  /\ [][exc # "TimeoutException"]_vars

\* C3 witness: the script was ended by TimeoutException with a later file of
\* the same entry still on the worklist.
C3_Witness ==
  /\ pc = "exited"
  /\ exc = "TimeoutException"
  /\ worklist # <<>>
  /\ visited # {}

\* C4: whenever _run_analysis is not running, the working directory is the
\* one that was current before _run_analysis changed it.
C4_CwdRestored == ~InAnalysis => cwd = saved_cwd

\* C5: no output file is open when the next pass is started or after
\* _run_analysis was left: files are open only between the opening of the
\* outputs of a pass and the end of its call.
C5_HandlesClosed == pc # "opened" => handles = {}

\* The lines of the input file as test() reads them.
ReadLines == [j \in 1..Len(input) |-> Strip(input[j])]

\* The numbers of the invalid lines of the input file.
InvalidLines == {j \in 1..Len(input) : ~_is_valid_entry(ReadLines[j])}

\* C6: if any line of the input file is invalid, in the selected range or not,
\* test() handles no entry, starts no chain and invokes no pass, and the only
\* way it ends is fatal() naming the first invalid line.
C6_InvalidLineIsFatal ==
  InvalidLines # {} =>
    /\ pc \in {"new", "setup", "exited"}
    /\ handled = <<>>
    /\ visited = {}
    /\ chain = <<>>
    /\ lines # <<>> =>
         /\ pc = "exited"
         /\ exc = "SystemExit"
         /\ fatal_line \in InvalidLines
         /\ \A j \in InvalidLines : fatal_line <= j

\* C6 witness: fatal() named line 2, which lies before the first line to handle.
C6_Witness ==
  /\ pc = "exited"
  /\ exc = "SystemExit"
  /\ fatal_line = 2
  /\ _start_line = 3

RECURSIVE Selected(_, _, _)
\* The numbers of the entries in the selected range: from line 'from' on, at
\* most num lines that are neither blank nor a comment.
Selected(ls, from, num) ==
  IF from > Len(ls) \/ num = 0 THEN <<>>
  ELSE IF ls[from] = <<>> \/ StartsWith(ls[from], <<"#">>)
    THEN Selected(ls, from + 1, num)
  ELSE <<from>> \o Selected(ls, from + 1, num - 1)

\* C7: an error in the handling of an entry, other than KeyboardInterrupt and
\* TimeoutException, never ends the script: the entry is given up, test() has
\* moved past it, and when test() returns it has handled every entry of the
\* selected range.
C7_ErrorAbandonsEntryOnly ==
  /\ pc = "exited" =>
       exc \in {"SystemExit", "AssertionError", "KeyboardInterrupt", "TimeoutException"}
  /\ \A j \in abandoned : j \in Range(handled) /\ j < i
  /\ pc = "done" => handled = Selected(lines, _start_line, _num_lines)

\* C7 witness: test() returned, and it handled a line after one it gave up.
C7_Witness ==
  /\ pc = "done"
  /\ \E j \in abandoned : \E m \in Range(handled) : m > j

\* C8: while _run_analysis runs for a file, the output directory paired with
\* the file exists.
C8_OutputDirExists == InAnalysis => isdir(fs, p2)

\* C8 witness: a pass is called for /w/d/f, whose output directory no earlier
\* run has left.
C8_Witness ==
  /\ pc = "opened"
  /\ Len(p1) > 2
  /\ SubSeq(p1, Len(p1) - 1, Len(p1)) = <<NameD, NameF>>
  /\ isdir(fs, p2)

\* C9: the two paths of every pair on the worklist are the same relative to
\* the analysis root and to the output root.
C9_WorklistMirrors ==
  \A j \in 1..Len(worklist) :
    relpath(worklist[j][1], _analysis_root) = relpath(worklist[j][2], _output_root)


C11_TreeTerminated ==
  (at = "idle" /\ outcome = "True" /\ expired)
    => (Exited(Child) /\ Child.kids = 0)

\* The exceptions that leave RunPass.__call__.
RunPassFaults == {"OSError", "ValueError", "NoSuchProcess", "AccessDenied", "AssertionError"}

\* The keys of the lines in data, in the order written.
Keys == [q \in DOMAIN data |-> data[q][1]]

\* C12: an invocation of RunPass that ends without raising has returned True,
\* whatever the exit code and whether or not the timeout was hit, and data
\* then holds exactly the seven lines Timeout, User time, Sys time, Real time,
\* Maximum resident set size, Maximum virtual memory size, Exit code, in
\* this order.
C12_SevenLines ==
  (at = "idle" /\ calls > 0 /\ outcome \notin RunPassFaults)
    => /\ outcome = "True"
       /\ Keys = <<"Timeout", "User time", "Sys time", "Real time",
                   "Maximum resident set size", "Maximum virtual memory size",
                   "Exit code">>

\* An invocation returned True for a command that ended with exit code 1.
C12_Witness ==
  /\ at = "idle"
  /\ outcome = "True"
  /\ Len(data) = 7
  /\ Field(data, "Exit code") = <<1>>
  /\ Field(data, "Timeout") = FALSE

\* C13: the user time and the system time an invocation of RunPass writes are
\* the children counters it reads minus the values the invocation before it
\* read, which _utime_sum and _stime_sum hold (zero before the first).
C13_CpuTimeDelta ==
  [][(at = "joining" /\ outcome' = "True")
       => /\ Field(data', "User time") = rusage.ru_utime - _utime_sum
          /\ Field(data', "Sys time") = rusage.ru_stime - _stime_sum]_vars

\* C14: the peaks of a sampler thread are never below the sums over the
\* command and its descendants that the thread got in its latest round, and
\* never go down; so the peaks an invocation reports are the largest sums
\* sampled.
C14_PeakIsMaxOfSums ==
  /\ \A j \in DOMAIN threads : /\ threads[j].max_rss >= threads[j].rss
                               /\ threads[j].max_vms >= threads[j].vms
  /\ outcome = "True" => /\ Field(data, "Maximum resident set size") >= Thread.rss
                         /\ Field(data, "Maximum virtual memory size") >= Thread.vms

\* C15: when an invocation of RunPass has written its record, its sampler
\* thread has seen the stop event and has ended, and the peaks in the record
\* are the peaks the thread holds: the thread wrote none after they were read.
C15_SamplerEndedBeforeRead ==
  outcome = "True" =>
    /\ Thread.stop
    /\ ~Thread.alive
    /\ Field(data, "Maximum resident set size") = Thread.max_rss
    /\ Field(data, "Maximum virtual memory size") = Thread.max_vms

\* An invocation has written the peaks of a sampler thread that had sampled
\* the running command before it was stopped.
C15_Witness ==
  /\ at = "idle"
  /\ outcome = "True"
  /\ ~Thread.alive
  /\ Thread.max_rss > 0
  /\ Field(data, "Maximum resident set size") = Thread.max_rss

\* C16: no invocation of RunPass ends by raising psutil.NoSuchProcess: when
\* the child is gone at the time it is waited for or killed, the invocation
\* still writes its record and returns True.
C16_LookupFailureTolerated ==
  (at = "idle" /\ calls > 0 /\ outcome \notin {"OSError", "ValueError", "AccessDenied"})
    => (outcome = "True" /\ data # <<>>)

\* C17: every number in a record RunPass has written is non-negative: the
\* user time, the system time, the real time, the two peaks and the exit
\* code, whether the command ended by itself or was killed after a timeout.
C17_FieldsNonNegative ==
  outcome = "True" =>
    /\ Field(data, "User time") >= 0
    /\ Field(data, "Sys time") >= 0
    /\ Field(data, "Real time") >= 0
    /\ Field(data, "Maximum resident set size") >= 0
    /\ Field(data, "Maximum virtual memory size") >= 0
    /\ \A q \in DOMAIN Field(data, "Exit code") : Field(data, "Exit code")[q] >= 0

(***************************************************************************)
(* Properties of CheckPass and of the registration of passes               *)
(***************************************************************************)

\* The pass called last for the file at hand is the CheckPass, whose command
\* ran to its end.
CheckPassCompleted ==
  /\ InAnalysis
  /\ chain # <<>>
  /\ _passes[Last(chain)[1]].name = "CheckPass"
  /\ cp.kind = "completed"

\* C18: an invocation of CheckPass whose command completes returns a verdict,
\* and the verdict is True exactly when the return-code predicate accepts the
\* exit code, a set stdout regex is found in stdout, a set stderr regex is
\* found in stderr, and the stdout and stderr predicates accept the two
\* texts; a CheckPass with no regex and the default predicates returns True.
C18_VerdictIffAllChecks ==
  CheckPassCompleted =>
    /\ Last(chain)[2] \in Verdicts
    /\ Last(chain)[2] = "True" <=>
         /\ cp.returncode \in check_pass.retcode
         /\ check_pass.regex_stdout # <<>> => Find(cp.stdout, check_pass.regex_stdout) > 0
         /\ check_pass.regex_stderr # <<>> => Find(cp.stderr, check_pass.regex_stderr) > 0
         /\ cp.stdout \in check_pass.check_stdout
         /\ cp.stderr \in check_pass.check_stderr
    /\ check_pass = DefaultCheckPass => Last(chain)[2] = "True"

\* C18 witness: a CheckPass with a stderr regex returned False for a command
\* that ended with an accepted code and stdout, and with nothing on stderr.
C18_Witness ==
  /\ CheckPassCompleted
  /\ Last(chain)[2] = "False"
  /\ check_pass.regex_stderr = <<"e">>
  /\ check_pass.regex_stdout = <<>>
  /\ check_pass.check_stdout = Stdouts
  /\ check_pass.check_stderr = Stderrs
  /\ cp.returncode \in check_pass.retcode
  /\ cp.stderr = <<>>

\* C19: when the command of the CheckPass runs longer than the timeout or
\* cannot be started, the call returns no verdict but raises; the step leaves
\* the loop of the chain and changes neither the worklist nor the position of
\* test() nor the lines given up, and when test() returns every file found
\* for a line that was not given up has had its chain started.
C19_CheckPassFaultEndsChainOnly ==
  /\ [][(/\ pc = "chain"
         /\ k <= Len(_passes)
         /\ _passes[k].name = "CheckPass"
         /\ chain' # chain
         /\ cp'.kind \in {"timeout", "nospawn"})
          => /\ Last(chain')[2] \notin Verdicts
             /\ pc' = "leave"
             /\ UNCHANGED <<worklist, lines, i, n, exc, abandoned, visited>>]_vars
  /\ []((InAnalysis /\ chain # <<>> /\ _passes[Last(chain)[1]].name = "CheckPass"
           /\ cp.kind \in {"timeout", "nospawn"})
          => pc = "leave" /\ Last(chain)[2] \in {"TimeoutExpired", "FileNotFoundError"})
  /\ [](pc = "done" => \A e \in expected : e[1] \notin abandoned => e \in visited)

\* C19 witness: the command of the CheckPass was cut off at the timeout for
\* one file, and the chain of a later file has been started.
C19_Witness ==
  /\ pc = "chain"
  /\ chain = <<>>
  /\ _passes # <<>>
  /\ _passes[1].name = "CheckPass"
  /\ cp.kind = "timeout"
  /\ Cardinality(visited) >= 2

\* C20: a pass whose __call__ opens a file is never in the list of passes,
\* and so it is never the pass that _run_analysis calls.
C20_OpeningPassNeverListed ==
  \A j \in 1..Len(_passes) : \A c \in _passes[j].calls : ~c.opens_file

(***************************************************************************)
(* Properties of the helpers                                               *)
(***************************************************************************)

\* C21: _copy_and_merge called a second time on the same source and target
\* leaves the tree the first call left, and each file the target held before
\* the first call has the content it had.
C21_MergeIdempotent ==
  /\ Len(returned) >= 2 => returned[2].fs = returned[1].fs
  /\ Len(returned) >= 1 =>
       \A q \in DOMAIN arg.fs :
         (Below(q, arg.tgt) /\ isfile(arg.fs, q)) =>
           (q \in DOMAIN returned[1].fs /\ returned[1].fs[q] = arg.fs[q])

\* The paths at and below root, taken relative to root, and what is at a
\* relative path: "dir" or "file".
Rel(f, root) == {SubSeq(q, Len(root) + 1, Len(q)) : q \in {x \in DOMAIN f : Below(x, root)}}
KindAt(f, root, r) == IF isdir(f, root \o r) THEN "dir" ELSE "file"

\* Source and target are directories that lie apart, and no relative path is
\* a file in the one and a directory in the other.
MergeableTrees ==
  /\ arg.tgt = <<"t">>
  /\ isdir(arg.fs, arg.src)
  /\ isdir(arg.fs, arg.tgt)
  /\ \A r \in Rel(arg.fs, arg.src) \cap Rel(arg.fs, arg.tgt) :
       KindAt(arg.fs, arg.src, r) = KindAt(arg.fs, arg.tgt, r)

\* C22: after _copy_and_merge(src, tgt) on two directories without type
\* conflicts, the relative paths below the target are those of the source
\* and those the target held, each a file or a directory as it was there; a
\* file the target did not hold has the content of the source's file.
C22_MergeIsUnion ==
  (MergeableTrees /\ Len(returned) >= 1) =>
    LET merged == returned[1].fs
    IN /\ returned[1].ok
       /\ Rel(merged, arg.tgt) = Rel(arg.fs, arg.src) \cup Rel(arg.fs, arg.tgt)
       /\ \A r \in Rel(arg.fs, arg.src) : KindAt(merged, arg.tgt, r) = KindAt(arg.fs, arg.src, r)
       /\ \A r \in Rel(arg.fs, arg.tgt) : KindAt(merged, arg.tgt, r) = KindAt(arg.fs, arg.tgt, r)
       /\ \A r \in Rel(arg.fs, arg.src) \ Rel(arg.fs, arg.tgt) :
            merged[arg.tgt \o r] = arg.fs[arg.src \o r]
       /\ \A q \in DOMAIN arg.fs : ~Below(q, arg.tgt) => merged[q] = arg.fs[q]

\* C22 witness: the source holds a file d/f that the target lacks in its
\* directory d, the target holds a file f that the source lacks, and the
\* target has both after the call.
C22_Witness ==
  /\ MergeableTrees
  /\ Len(returned) >= 1
  /\ <<"d", "f">> \in Rel(arg.fs, arg.src) \ Rel(arg.fs, arg.tgt)
  /\ <<"d">> \in Rel(arg.fs, arg.tgt)
  /\ <<"f">> \in Rel(arg.fs, arg.tgt) \ Rel(arg.fs, arg.src)
  /\ returned[1].fs[<<"t", "d", "f">>] = "new"
  /\ returned[1].fs[<<"t", "f">>] = "old"

\* The place below root that is keyed by the scheme, the host and the path
\* of the URL s.
UrlLocation(root, s) ==
  LET r == urlparse(s)
  IN _join(root, JoinWith(<<r.scheme, r.netloc, r.path>>, "/"))

\* C23: once test() has handled a line that is a valid HTTP entry, the
\* resource is in the analysis root at the place keyed by scheme, host and
\* path, and the line was not given up.
C23_UrlMaterialized ==
  \A j \in Range(handled) :
    _is_http_url_entry(lines[j]) =>
      /\ exists(fs, UrlLocation(_analysis_root, lines[j]))
      /\ j \notin abandoned

\* Two '/' of s with nothing but whitespace between them, at or after from.
Doubled(s, from) ==
  \E a \in from..Len(s) : \E b \in (a + 1)..Len(s) :
    /\ s[a] = "/"
    /\ s[b] = "/"
    /\ \A m \in (a + 1)..(b - 1) : s[m] \in {" ", "\t"}

\* What _is_path_entry returned for the string arg.
PathEntryReturned ==
  /\ returned # <<>>
  /\ returned[1].helper = "_is_path_entry"

\* C24: _is_path_entry(s) is False when s has a doubled separator, when s
\* ends with '/', and when s starts with '~' or '^' and no '/' follows at
\* once; it is True for every other s.
C24_PathEntry ==
  PathEntryReturned =>
    (returned[1].value <=>
       ~ \/ Doubled(arg, 1)
         \/ (arg # <<>> /\ arg[Len(arg)] = "/")
         \/ (arg # <<>> /\ arg[1] \in {"~", "^"} /\ ~(Len(arg) >= 2 /\ arg[2] = "/")))

\* C24 witness: '/ /a', with whitespace between two separators, is rejected.
C24_Witness ==
  /\ PathEntryReturned
  /\ arg = <<"/", " ", "/", "a">>
  /\ ~returned[1].value

\* What _is_http_url_entry returned for the string arg.
HttpUrlEntryReturned ==
  /\ returned # <<>>
  /\ returned[1].helper = "_is_http_url_entry"

ColumnPasses == {j \in 1..Len(arg.passes) : arg.passes[j].column # <<>>}
HasInput(j) == arg.passes[j].input_file \in arg.files
FirstFalse ==
  LET stops == {j \in 1..Len(arg.passes) : HasInput(j) /\ ~arg.results[j].b}
  IN IF stops = {} THEN Len(arg.passes) + 1 ELSE CHOOSE j \in stops : \A m \in stops : j <= m

\* C26: the record of gather_data holds the test path and then one value for
\* each pass with a column, in the order of the passes, as many fields as the
\* heading has; the value is '-' for a pass whose input file is missing, for
\* one that extracted the empty string and for one after a pass that returned
\* a false flag, else what the pass extracted; and no pass is called after
\* one that returned a false flag.
C26_RecordMatchesHeading ==
  returned # <<>> =>
    LET rec == returned[1].record
        called == returned[1].invoked
        position(j) == 1 + Cardinality({m \in ColumnPasses : m <= j})
    IN /\ Len(rec) = 1 + Cardinality(ColumnPasses)
       /\ Len(rec) = Len(returned[1].heading)
       /\ \A j \in ColumnPasses :
            rec[position(j)] =
              IF j > FirstFalse \/ ~HasInput(j) \/ arg.results[j].r = <<>>
                THEN <<"-">> ELSE arg.results[j].r
       /\ \A m \in 1..Len(called) : called[m] <= FirstFalse
       /\ Range(called) = {j \in 1..Len(arg.passes) : HasInput(j) /\ j <= FirstFalse}

\* C26 witness: the first of two passes with a column returned a false flag
\* with a value, the second one, whose file is there, was not called, and the
\* record holds the value and the placeholder.
C26_Witness ==
  /\ returned # <<>>
  /\ Len(arg.passes) = 2
  /\ ColumnPasses = {1, 2}
  /\ arg.files = {"a", "b"}
  /\ arg.results[1] = [b |-> FALSE, r |-> <<"v">>]
  /\ returned[1].invoked = <<1>>
  /\ returned[1].record = << <<".">>, <<"v">>, <<"-">> >>

\* The files that the lines handled by test() name: the file of an entry, or
\* the files below the directory of an entry.
NamedFiles ==
  UNION {LeafFiles(fs, Resolve(fs, _expand_path(lines[j], StartDir)).path) : j \in Range(handled)}

C28_OneSamplerWhileInvoked ==
  /\ Cardinality({j \in 1..Len(threads) : threads[j].alive}) <= 1
  /\ at = "idle" => \A j \in 1..Len(threads) : ~threads[j].alive

\* The exceptions of psutil.Popen that RunPass.__call__ raises again.
SpawnFaults == {"OSError", "ValueError"}

\* C29: when psutil.Popen raises in an invocation of RunPass, the invocation
\* ends with that error at once: no sampler thread and no process is added,
\* nothing is written to data, and _run_analysis is where it was; when
\* _run_analysis gets the error it leaves the loop of the chain, with the data
\* file still empty and with the worklist, the position of test() and the
\* lines given up unchanged; no later pass is invoked for the file; and when
\* test() returns every file found for a line that was not given up has had
\* its chain started.
C29_SpawnFailurePropagates ==
  /\ [][(outcome = "none" /\ outcome' \in SpawnFaults)
          => /\ at = "idle" /\ at' = "idle"
             /\ data' = <<>>
             /\ Len(threads') <= Len(threads)
             /\ Len(popen') <= Len(popen)
             /\ UNCHANGED <<pc, k, chain, fs, worklist>>]_vars
  /\ [][(chain' # chain /\ chain' # <<>> /\ Last(chain')[2] \in SpawnFaults)
          => /\ pc' = "leave"
             /\ data = <<>>
             /\ fs'[Append(p2, OutData)] = ""
             /\ UNCHANGED <<worklist, lines, i, n, exc, abandoned, visited>>]_vars
  /\ []((chain # <<>> /\ Last(chain)[2] \in SpawnFaults) => pc \notin {"chain", "opened"})
  /\ [](pc = "done" => \A e \in expected : e[1] \notin abandoned => e \in visited)

\* C29 witness: the only invocation so far created no process and started no
\* thread, its error ended the chain of the first file of the directory, and
\* the chain of the second file has been started.
C29_Witness ==
  /\ pc = "chain"
  /\ calls = 1
  /\ popen = <<>>
  /\ threads = <<>>
  /\ data = <<>>
  /\ Cardinality(visited) = 2
  /\ abandoned = {}

\* C30: when _run_analysis gets the result of an invocation of RunPass whose
\* wait ran into the timeout, the result is True and the loop goes on with the
\* next pass for the same file, with the worklist, the position of test() and
\* the lines given up unchanged; when test() returns every file found for a
\* line that was not given up has had its chain started; and the script is
\* ended only where the deadline is found exceeded before a file.
C30_TimeoutEndsOnlyCall ==
  /\ [][(chain' # chain /\ chain' # <<>> /\ expired)
          => /\ Last(chain')[2] = "True"
             /\ pc' = "chain"
             /\ k' = k + 1
             /\ UNCHANGED <<p1, worklist, lines, i, n, exc, abandoned, visited>>]_vars
  /\ [](pc = "done" => \A e \in expected : e[1] \notin abandoned => e \in visited)
  /\ [][exc' # exc => DeadlineFound]_vars

(***************************************************************************)
(* Properties of the driver script as a whole                              *)
(***************************************************************************)

\* C31: KeyboardInterrupt is never caught and kept: the step in which a pass
\* raises it ends the script with it, and so does every other step in which
\* it is raised, since no line is ever given up in a run whose entries raise
\* nothing else; once it has ended the script no step follows, so no pass is
\* invoked after it.
C31_InterruptPropagates ==
  /\ [][(chain' # chain /\ chain' # <<>> /\ Last(chain')[2] = "KeyboardInterrupt")
          => /\ pc' = "exited"
             /\ exc' = "KeyboardInterrupt"]_vars
  /\ [](abandoned = {})
  /\ [](exc = "KeyboardInterrupt" => pc = "exited")
  /\ [][pc # "exited"]_vars

\* C31 witness: the first pass returned True for the second file of the
\* directory, the second pass raised KeyboardInterrupt and the script has
\* ended with it, with a file of the entry still on the worklist.
C31_Witness ==
  /\ pc = "exited"
  /\ exc = "KeyboardInterrupt"
  /\ chain = << <<1, "True">>, <<2, "KeyboardInterrupt">> >>
  /\ worklist # <<>>
  /\ i = 3

\* C32: the command RunPass starts is self.cmd followed by the derived name
\* alone (after its option, when add is a list) if add is given, by nothing
\* if add is not given and ignore_file is set, and by the file alone
\* otherwise; and self.cmd is one of the commands RunPass was constructed
\* with after every call.
C32_ArgumentVector ==
  /\ arg.cmd \in {a.cmd : a \in RunPassArgs}
  /\ \A j \in 1..Len(returned) :
       LET f == returned[j].f
           derived == f \o arg.add.suffix
       IN returned[j].cmd =
            arg.cmd \o (IF arg.add.kind = "str" THEN <<derived>>
                        ELSE IF arg.add.kind = "list" THEN <<arg.add.option, derived>>
                        ELSE IF arg.ignore_file THEN <<>>
                        ELSE <<f>>)

\* One of the two roots is a directory the process may not write to.
RootNotWritable ==
  \/ exists(fs, abspath(<<"A">>, StartDir)) /\ ~writable(fs, abspath(<<"A">>, StartDir))
  \/ exists(fs, abspath(<<"O">>, StartDir)) /\ ~writable(fs, abspath(<<"O">>, StartDir))

\* C33: in a run with a root that is not writable, the first entry that is
\* handled ends the script: no line is given up with test() going on, no
\* second entry is handled, and test() does not return.
C33_UnwritableRootIsFatal ==
  RootNotWritable =>
    /\ abandoned = {}
    /\ Len(handled) <= 1
    /\ pc # "done"

Declared(j) ==
  IF _passes[j].has_output
    THEN {Append(OutputDirOfA, _passes[j].output[x]) : x \in 1..Len(_passes[j].output)}
    ELSE {}

\* The position of the first pass that returned False or raised, or that of
\* the last pass if there was none.
EndOfChain ==
  IF chain # <<>> /\ Last(chain)[2] # "True" THEN Len(chain) ELSE Len(_passes)

\* C35: when _run_analysis is over for /w/a, the output files that were
\* opened, and so no longer hold what the earlier run left, are exactly those
\* declared by the passes up to the first one that returned False or raised;
\* every other declared file is as the earlier run left it.
C35_OpenedUpToFirstFailure ==
  (visited # {} /\ ~InAnalysis) =>
    \A j \in 1..Len(_passes) : \A q \in Declared(j) :
      (fs[q] \notin {"old", "dir"}) <=> (\E m \in 1..EndOfChain : q \in Declared(m))

\* C36: the lines test() has handled have numbers from start_line on, in
\* increasing order and so each once; none of them is blank or starts with
\* '#', in the input file or once stripped; there are at most num_lines of
\* them; and n counts exactly them.
C36_SelectedRange ==
  /\ \A j \in 1..Len(handled) :
       /\ handled[j] >= _start_line
       /\ handled[j] <= Len(input)
       /\ Strip(input[handled[j]]) # <<>>
       /\ ~StartsWith(input[handled[j]], <<"#">>)
       /\ ~StartsWith(Strip(input[handled[j]]), <<"#">>)
  /\ \A j, m \in 1..Len(handled) : j < m => handled[j] < handled[m]
  /\ Len(handled) <= _num_lines
  /\ pc \in {"loop", "worklist", "chain", "opened", "leave", "done"} => n = Len(handled)

\* C36 witness: with start_line 2 and num_lines 2, the comment on line 1 and
\* the blank line 3 were passed over, lines 2 and 4 were handled, and test()
\* has returned.
C36_Witness ==
  /\ pc = "done"
  /\ _start_line = 2
  /\ _num_lines = 2
  /\ Len(input) = 4
  /\ handled = <<2, 4>>

\* C37: every MeasureMemoryUsage thread an invocation of RunPass has started
\* ends once the invocation is over, however the invocation ended: by
\* returning, after a timeout, or with an error of p.wait() or p.kill().
C37_SamplerTerminates ==
  \A j \in 1..MaxCalls :
    (at = "idle" /\ j \in DOMAIN threads) ~> (j \in DOMAIN threads /\ ~threads[j].alive)

\* C38: when test() comes to a line that contains '.tar.bz2', handling it
\* invokes no pass, opens no output file and leaves every file and directory
\* as it is, and test() is then at the next line of its loop, with no error
\* that ends it.
C38_ArchiveLineSkipped ==
  [][(pc = "loop" /\ i <= Len(lines) /\ n < _num_lines /\ Find(lines[i], _archive_suf) > 0)
       => /\ fs' = fs
          /\ chain' = chain
          /\ visited' = visited
          /\ handles' = handles
          /\ worklist' = worklist
          /\ pc' = "loop"
          /\ i' = i + 1
          /\ exc' = exc]_vars

\* C38 witness: test() has returned after the two lines 'a.tar.bz2' and 'a';
\* the first was given up, the second went through the chain of passes.
C38_Witness ==
  /\ pc = "done"
  /\ lines = <<LineArchive, LineA>>
  /\ handled = <<1, 2>>
  /\ abandoned = {1}
  /\ chain # <<>>
  /\ visited # {}

====
